---- MODULE Spec2Model ----
(***************************************************************************)
(* A model of regcensus (src/regcensus/api.py, src/regcensus/cache.py):    *)
(* get_values and the memoized helpers it calls, one HTTP request per step. *)
(*                                                                         *)
(* Python values are records [t, n, s, l]: t is the type tag, n the number *)
(* (or the digits of a numeric string), s the alphabetic text of a string, *)
(* l the elements of a list.                                               *)
(***************************************************************************)
EXTENDS Integers, Sequences, FiniteSets, TLC

(* ---------------------------- Python values ---------------------------- *)

PV(t, n, s, l) == [t |-> t, n |-> n, s |-> s, l |-> l]
None == PV("none", 0, "", <<>>)
PyInt(n) == PV("int", n, "", <<>>)
PyFloat(n) == PV("float", n, "", <<>>)
PyBool(b) == PV("bool", IF b THEN 1 ELSE 0, "", <<>>)
PyStr(s) == PV("str", 0, s, <<>>)
Digits(n) == PV("str", n, "", <<>>)
EmptyStr == PV("estr", 0, "", <<>>)
PyList(l) == PV("list", 0, "", l)

\* bool(x)
Truthy(x) ==
    CASE x.t = "none" -> FALSE
      [] x.t = "estr" -> FALSE
      [] x.t = "list" -> Len(x.l) > 0
      [] x.t = "str" -> TRUE
      [] OTHER -> x.n # 0

\* a piece of text: a number printed in decimal (s = ""), a word, or a
\* number followed by a suffix
Tok(n, s) == [n |-> n, s |-> s]
Comma == Tok(0, ",")
LBracket == Tok(0, "[")
RBracket == Tok(0, "]")
ListSep == Tok(0, ", ")

\* str(x) of a scalar, as one piece of text
StrTok(x) ==
    CASE x.t = "none" -> Tok(0, "None")
      [] x.t = "bool" -> Tok(0, IF x.n = 1 THEN "True" ELSE "False")
      [] x.t = "float" -> Tok(x.n, ".0")
      [] x.t = "estr" -> Tok(0, "<empty>")
      [] OTHER -> Tok(x.n, x.s)

RECURSIVE JoinWith(_, _)
\* sep.join(str(i) for i in l)
JoinWith(sep, l) ==
    IF l = <<>> THEN <<>>
    ELSE IF Len(l) = 1 THEN <<StrTok(l[1])>>
    ELSE <<StrTok(l[1]), sep>> \o JoinWith(sep, Tail(l))

\* ",".join(str(i) for i in l)
Join(l) == JoinWith(Comma, l)

Quote == Tok(0, "'")

\* repr(x) of a scalar: as str(x), a string in quotes
ReprScalar(x) ==
    IF x.t \in {"str", "estr"} THEN <<Quote, StrTok(x), Quote>>
    ELSE <<StrTok(x)>>

RECURSIVE ReprElems(_)
\* the reprs of the elements of a list, separated by ', '
ReprElems(l) ==
    IF l = <<>> THEN <<>>
    ELSE IF Len(l) = 1 THEN ReprScalar(l[1])
    ELSE ReprScalar(l[1]) \o <<ListSep>> \o ReprElems(Tail(l))

\* repr(x)
Repr(x) ==
    IF x.t = "list" THEN <<LBracket>> \o ReprElems(x.l) \o <<RBracket>>
    ELSE ReprScalar(x)

\* f'{x}': str(x); a list is printed in brackets with the reprs of its
\* elements
Fmt(x) ==
    IF x.t = "list" THEN Repr(x) ELSE <<StrTok(x)>>

\* re.search(r'[A-Za-z]', str(x)) for a scalar x
HasAlpha(x) ==
    \/ x.t \in {"none", "bool"}
    \/ x.t = "str" /\ x.s # ""

\* re.search(r'[A-Za-z]', str(x)) for any x: a list is printed with its
\* elements, so it has a letter when one of its elements has
SearchAlpha(x) ==
    IF x.t = "list" THEN \E i \in 1..Len(x.l) : HasAlpha(x.l[i])
    ELSE HasAlpha(x)

\* range(lo, hi + 1) as a list of ints
RECURSIVE IntRange(_, _)
IntRange(lo, hi) ==
    IF lo > hi THEN <<>> ELSE <<PyInt(lo)>> \o IntRange(lo + 1, hi)

\* date_format.match(str(year)): the text starts with four digits
DateFormatMatch(x) ==
    /\ x.t \in {"int", "float", "str"}
    /\ x.s = ""
    /\ x.n >= 1000

(* ------------------------------- tables -------------------------------- *)

\* Column names are sequences of name pieces; "v_" is the prefix token.
RawColumns == << <<"v_", "series_value">>, <<"jurisdiction", "v_", "name">>, <<"year">> >>

RECURSIVE AfterLast(_, _)
\* c.split('v_')[-1]: what follows the last occurrence of the token
AfterLast(tok, c) ==
    IF \E i \in 1..Len(c) : c[i] = tok
    THEN AfterLast(tok, Tail(c))
    ELSE c

\* as clean_columns, the prefix left in place
clean_columns_kept(df) == df

\* clean_columns(df): rename every column, rows untouched
clean_columns(df) ==
    [df EXCEPT !.cols = [i \in 1..Len(df.cols) |-> AfterLast("v_", df.cols[i])]]

\* A table: its columns and its rows, the rows kept as one block per
\* response: the page the block answers, how many rows, the years covered.
Table(cols, blocks) == [cols |-> cols, blocks |-> blocks]
NoTable == Table(<<>>, <<>>)

RECURSIVE SumRows(_)
SumRows(blocks) ==
    IF blocks = <<>> THEN 0 ELSE blocks[1].n + SumRows(Tail(blocks))

\* len(df)
Rows(df) == SumRows(df.blocks)

\* pd.concat([a, b])
concat(a, b) == Table(a.cols, a.blocks \o b.blocks)

(* ------------------------------- bounds -------------------------------- *)

\* get_values is called at most MaxCalls times in one run
MaxCalls == 2
\* the server answers a full page only for pages below MaxPage
MaxPage == 3
\* the years of the model are BaseYear .. BaseYear + YearSpan
BaseYear == 2000
YearSpan == 2

Years == BaseYear..(BaseYear + YearSpan)
\* a memoized function is called at most MemoCalls times in one run
MemoCalls == 3
\* a lookup endpoint serves at most LookupRows rows
LookupRows == 2
\* the lookup functions are called at most MaxLookups times in one run
MaxLookups == 2
\* reading_time is called with up to MaxCount times each scale of words
MaxCount == 40
\* the words read in one work-year: 300 a minute, 8 hours, 5 days, 50 weeks
WordsPerYear == 36000000
\* the binary digits of a float's significand
Precision == 53

\* the page-size ceiling of the API
PageCeiling == 5000

(* ------------------------------ the server ----------------------------- *)

\* The jurisdictions the server knows, by name.
JurisdictionIds == [Alaska |-> 58, Alabama |-> 59]
KnownIds == {JurisdictionIds[k] : k \in DOMAIN JurisdictionIds}
\* The series the discovery endpoint lists.
SeriesIds == <<1, 2, 3>>
\* NAICS code -> label id, as /labels serves them
LabelIds == (22 :> 722) @@ (49 :> 749)

\* requests.get(url): one request of the log
Request(kind, path, params) == [kind |-> kind, path |-> path, params |-> params]
Param(k, v) == [k |-> k, v |-> v]

\* A response is either rows or an error envelope (a JSON object, which
\* json.loads refuses with TypeError); field names the envelope's key.
RowsResponse(n, years) == [kind |-> "rows", n |-> n, years |-> years, field |-> ""]
ErrorResponse(field) == [kind |-> "error", n |-> 0, years |-> {}, field |-> field]
EnvelopeFields == {"message", "errorMessage", "status"}

\* One row of /datafinder: series 1 has a summary and a document-level
\* path, series 2 no document-level path, series 3 a label path only.
DatafinderRow(series, year) ==
    [series |-> series, year |-> year,
     summary_endpoints |-> IF series = 3 THEN <<>> ELSE <<"/state-summary">>,
     document_endpoints |-> IF series = 1 THEN <<"/state", "/summary">> ELSE <<>>,
     label_endpoints |-> <<"/state-label", "/documents">>]

RECURSIVE RowsFor(_, _)
\* the discovery rows for the years of ys, in ascending year order,
\* every series of SeriesIds within a year
RowsFor(ys, from) ==
    IF from > BaseYear + YearSpan THEN <<>>
    ELSE (IF from \in ys
          THEN [i \in 1..Len(SeriesIds) |-> DatafinderRow(SeriesIds[i], from)]
          ELSE <<>>) \o RowsFor(ys, from + 1)

\* whether the text of a jurisdiction parameter names jurisdictions the
\* server knows: one known id, or a bracketed list of known ids
ServerKnows(text) ==
    /\ text # <<>>
    /\ \A i \in 1..Len(text) :
         \/ text[i] \in {LBracket, RBracket, ListSep, Comma} /\ Len(text) > 1
         \/ text[i].s = "" /\ text[i].n \in KnownIds
    /\ \E i \in 1..Len(text) : text[i].s = ""

\* the years a comma-joined year parameter asks for
YearsAsked(text) == {text[i].n : i \in {j \in 1..Len(text) : text[j].s = ""}}

(* ------------------------------- Memoized ------------------------------ *)

RECURSIVE ReprAll(_)
ReprAll(xs) ==
    IF xs = <<>> THEN <<>>
    ELSE Repr(xs[1]) \o <<ListSep>> \o ReprAll(Tail(xs))

\* the cache key (str(args), str(kwargs))
CacheKey(args, kwargs) == <<ReprAll(args), ReprAll(kwargs)>>

\* What running a function gives: the exception it raised ("" when it
\* returned), its value, the requests it sent and the lines it printed.
Outcome(exc, value, reqs, out) ==
    [exc |-> exc, value |-> value, reqs |-> reqs, out |-> out]

\* as Memoized, the outcome stored also when the function raised
MemoizedAlways(cache, key, run) ==
    IF key \in DOMAIN cache
    THEN [exc |-> "", value |-> cache[key], reqs |-> <<>>, out |-> <<>>,
          cache |-> cache]
    ELSE [exc |-> run.exc, value |-> run.value, reqs |-> run.reqs,
          out |-> run.out, cache |-> cache @@ (key :> run.value)]

\* Memoized.__call__: a stored value is returned without running the
\* function; otherwise the function runs and its value is stored, unless
\* it raised.  args is a tuple, which is always an instance of Hashable, so
\* the uncacheable branch is never taken.
Memoized(cache, key, run) ==
    IF key \in DOMAIN cache
    THEN [exc |-> "", value |-> cache[key], reqs |-> <<>>, out |-> <<>>,
          cache |-> cache]
    ELSE [exc |-> run.exc, value |-> run.value, reqs |-> run.reqs,
          out |-> run.out,
          cache |-> IF run.exc = "" THEN cache @@ (key :> run.value) ELSE cache]

(* ---------------------------- get_datafinder --------------------------- *)

\* the request get_datafinder sends
DatafinderRequest(jurisdiction, documentType) ==
    Request("datafinder", <<"/datafinder">>,
            <<Param("jurisdiction", Fmt(jurisdiction))>>
            \o (IF Truthy(documentType)
                THEN <<Param("documenttype", Fmt(documentType))>>
                ELSE <<>>))

\* get_datafinder(jurisdiction, documentType), the body: json.loads raises
\* TypeError on an error envelope
get_datafinder_body(srv, jurisdiction, documentType) ==
    LET req == DatafinderRequest(jurisdiction, documentType)
    IN  IF ServerKnows(Fmt(jurisdiction))
        THEN Outcome("", RowsFor(srv, BaseYear), <<req>>, <<>>)
        ELSE Outcome("TypeError", <<>>, <<req>>, <<>>)

\* get_datafinder(jurisdiction, documentType), memoized
get_datafinder(cache, srv, jurisdiction, documentType) ==
    Memoized(cache, CacheKey(<<jurisdiction, documentType>>, <<>>),
             get_datafinder_body(srv, jurisdiction, documentType))

(* ----------------------------- get_endpoint ---------------------------- *)

\* int(y): None and a list raise TypeError, a word raises ValueError
IntExc(y) ==
    CASE y.t \in {"none", "list"} -> "TypeError"
      [] y.t = "estr" -> "ValueError"
      [] y.t = "str" /\ y.s # "" -> "ValueError"
      [] OTHER -> ""

\* [int(y) for y in l]: the first exception raised, "" when none is
IntListExc(l) ==
    IF \E i \in 1..Len(l) : IntExc(l[i]) # ""
    THEN IntExc(l[CHOOSE i \in 1..Len(l) :
                    /\ IntExc(l[i]) # ""
                    /\ \A j \in 1..(i - 1) : IntExc(l[j]) = ""])
    ELSE ""

\* [int(y) for y in l]
IntList(l) == [i \in 1..Len(l) |-> PyInt(l[i].n)]

\* One side of the query "series == {series} and year == {year}": the
\* numbers the column may equal, or the exception evaluating it raises.  A
\* list is a membership test.  What pandas makes of "== None" depends on its
\* version and engine: nc is the outcome, no row matching ("empty"), a
\* TypeError, or another exception.
QueryTerm(x, nc) ==
    CASE x.t = "none" ->
            [exc |-> IF nc = "empty" THEN "" ELSE nc, set |-> {}]
      [] x.t = "estr" -> [exc |-> "SyntaxError", set |-> {}]
      [] x.t = "str" /\ x.s # "" -> [exc |-> "UndefinedVariableError", set |-> {}]
      [] x.t = "list" -> [exc |-> "", set |-> {x.l[i].n : i \in 1..Len(x.l)}]
      [] OTHER -> [exc |-> "", set |-> {x.n}]
NoneCompare == {"empty", "TypeError", "ValueError"}

\* as SelectRows, the series left out of the filter
RECURSIVE SelectRowsByYear(_, _, _)
SelectRowsByYear(df, ss, ys) ==
    IF df = <<>> THEN <<>>
    ELSE (IF df[1].year \in ys THEN <<df[1]>> ELSE <<>>)
         \o SelectRowsByYear(Tail(df), ss, ys)

\* the rows of df whose series is in ss and whose year is in ys, in order
RECURSIVE SelectRows(_, _, _)
SelectRows(df, ss, ys) ==
    IF df = <<>> THEN <<>>
    ELSE (IF df[1].series \in ss /\ df[1].year \in ys THEN <<df[1]>> ELSE <<>>)
         \o SelectRows(Tail(df), ss, ys)

\* an endpoint: found or not (None), and its path
Endpoint(path) == [found |-> TRUE, path |-> path]
NoEndpoint == [found |-> FALSE, path |-> <<>>]
\* "if endpoint": None and '' are falsy
EndpointTruthy(e) == e.found /\ e.path # <<>>

\* the path a discovery row gives (lines 307-314)
PickEndpoint(row, summary) ==
    LET first == IF Truthy(summary) THEN row.summary_endpoints
                 ELSE row.document_endpoints
    IN  IF first = <<>> THEN row.label_endpoints ELSE first

\* what get_endpoint's body gives: as Outcome, with get_datafinder's cache
EndpointOutcome(exc, value, reqs, cache) ==
    [exc |-> exc, value |-> value, reqs |-> reqs, out |-> <<>>, dfcache |-> cache]

\* lines 305-316, given the outcome d of get_datafinder and the two sides
\* qs, qy of the query
EndpointFrom(d, qs, qy, summary) ==
    IF d.exc = "TypeError" THEN EndpointOutcome("", NoEndpoint, d.reqs, d.cache)
    ELSE IF qs.exc \in {"TypeError", "KeyError"}
            \/ (qs.exc = "" /\ qy.exc \in {"TypeError", "KeyError"})
    THEN EndpointOutcome("", NoEndpoint, d.reqs, d.cache)
    ELSE IF qs.exc # "" THEN EndpointOutcome(qs.exc, NoEndpoint, d.reqs, d.cache)
    ELSE IF qy.exc # "" THEN EndpointOutcome(qy.exc, NoEndpoint, d.reqs, d.cache)
    ELSE IF SelectRows(d.value, qs.set, qy.set) = <<>>
    THEN EndpointOutcome("IndexError", NoEndpoint, d.reqs, d.cache)
    ELSE EndpointOutcome(
             "", Endpoint(PickEndpoint(SelectRows(d.value, qs.set, qy.set)[1],
                                       summary)),
             d.reqs, d.cache)

\* [int(y) for y in x] when x is a list, x otherwise (lines 300-303)
IntsOf(x) == IF x.t = "list" THEN PyList(IntList(x.l)) ELSE x
IntsExc(x) == IF x.t = "list" THEN IntListExc(x.l) ELSE ""

\* get_endpoint(series, jurisdiction, year, documentType, summary), the
\* body; df is get_datafinder's cache, returned as dfcache
get_endpoint_body(df, srv, series, jurisdiction, year, documentType, summary, nc) ==
    IF IntsExc(year) # "" THEN EndpointOutcome(IntsExc(year), NoEndpoint, <<>>, df)
    ELSE IF IntsExc(series) # ""
    THEN EndpointOutcome(IntsExc(series), NoEndpoint, <<>>, df)
    ELSE EndpointFrom(get_datafinder(df, srv, jurisdiction, documentType),
                      QueryTerm(IntsOf(series), nc), QueryTerm(IntsOf(year), nc),
                      summary)

\* Memoized.__call__ for get_endpoint: as Memoized, keeping the cache of
\* the get_datafinder it calls
MemoizedEndpoint(ep, df, key, run) ==
    IF key \in DOMAIN ep
    THEN [exc |-> "", value |-> ep[key], reqs |-> <<>>, out |-> <<>>,
          cache |-> ep, dfcache |-> df]
    ELSE [exc |-> run.exc, value |-> run.value, reqs |-> run.reqs,
          out |-> run.out,
          cache |-> Memoized(ep, key, run).cache, dfcache |-> run.dfcache]

\* get_endpoint, memoized
get_endpoint(ep, df, srv, series, jurisdiction, year, documentType, summary, nc) ==
    MemoizedEndpoint(
        ep, df,
        CacheKey(<<series, jurisdiction, year, documentType, summary>>, <<>>),
        get_endpoint_body(df, srv, series, jurisdiction, year, documentType,
                          summary, nc))

(* ------------------------------- lookups ------------------------------- *)

\* list_jurisdictions(), memoized: the name -> id dictionary
list_jurisdictions(cache) ==
    Memoized(cache, CacheKey(<<>>, <<>>),
             Outcome("", JurisdictionIds,
                     <<Request("jurisdictions", <<"/jurisdictions/">>, <<>>)>>,
                     <<>>))

\* list_series(), memoized; only its request matters here
list_series(cache) ==
    Memoized(cache, CacheKey(<<>>, <<>>),
             Outcome("", SeriesIds,
                     <<Request("dataseries", <<"/dataseries">>, <<>>)>>, <<>>))

\* list_industries(labellevel=, labelsource=, onlyID=True), memoized: the
\* code -> id dictionary
list_industries(cache, labellevel, labelsource) ==
    Memoized(cache, CacheKey(<<>>, <<labellevel, labelsource, PyBool(TRUE)>>),
             Outcome("", LabelIds,
                     <<Request("labels", <<"/labels">>,
                               <<Param("labellevel", Fmt(labellevel))>>
                               \o (IF Truthy(labelsource)
                                   THEN <<Param("labelsource", Fmt(labelsource))>>
                                   ELSE <<>>))>>,
                     <<>>))

\* d[i] on the jurisdiction dictionary: the exception raised, "" when found
JurisdictionKeyExc(i) ==
    IF i.t = "list" THEN "TypeError"
    ELSE IF i.t = "str" /\ i.s \in DOMAIN JurisdictionIds THEN ""
    ELSE "KeyError"

\* d[i] on the jurisdiction dictionary
JurisdictionOf(i) == PyInt(JurisdictionIds[i.s])

\* d[str(i)] on the industries dictionary, keyed by NAICS code
LabelKeyExc(i) ==
    IF i.t \in {"int", "str"} /\ i.s = "" /\ i.n \in DOMAIN LabelIds THEN ""
    ELSE "KeyError"
LabelOf(i) == PyInt(LabelIds[i.n])

(* ------------------------------ messages ------------------------------- *)

MsgDateDeprecated == "WARNING: date is deprecated, use year"
MsgNoData == "No data was found for these parameters. For this jurisdiction, consider the following:"
MsgJurisdictionConsider == "Valid jurisdiction ID required. Consider the following:"
MsgSeries == "Valid series ID required. Select from the following list:"
MsgJurisdiction == "Valid jurisdiction ID required."
MsgDate == "Valid date is required. Select from the following list:"
MsgIndustry == "WARNING: industry is deprecated; use label"
MsgIndustryLevel == "WARNING: industryLevel is deprecated; use labellevel"
MsgDocumentLevel == "WARNING: Returning document-level industry results."
MsgUnfiltered == "WARNING: Returning unfiltered industry results."
MsgCountry == "WARNING: country is deprecated"
MsgVersion == "WARNING: version is temporarily deprecated"
MsgApiCall == "API call:"
MsgTruncated == "Output truncated, found page"
MsgOutpath == "Valid outpath required to download."
MsgError == "ERROR:"
\* what pprint and to_string print of a lookup
ShownDatafinder == "<datafinder table>"
ShownJurisdictions == "<jurisdictions>"
ShownSeries == "<series>"

(* -------------------------------- state -------------------------------- *)

VARIABLES
    pc,            \* where the current get_values call stands
    args,          \* its arguments
    jurisdiction,  \* local: the jurisdiction after name resolution
    url_call,      \* local: the request URL built so far
    page,          \* local: the page cursor
    output,        \* local: the table of the last response
    full_output,   \* local: the pages concatenated so far
    requests,      \* the HTTP requests the call has sent, in order
    responses,     \* the responses to its values requests, in order
    stdout,        \* the lines the call has printed, in order
    result,        \* how the call ended
    files,         \* the files written, path -> table
    cacheLJ,       \* list_jurisdictions.cache
    cacheLS,       \* list_series.cache
    cacheLI,       \* list_industries.cache
    cacheDF,       \* get_datafinder.cache
    cacheEP,       \* get_endpoint.cache
    srvYears,      \* the server: the years discovery lists
    ncalls,        \* calls made so far
    caller,        \* the function the user called: get_values or a wrapper
    self_cache,    \* Memoized: self.cache of one memoized function
    thread,        \* Memoized: where each thread stands in __call__
    history,       \* Memoized: what has happened to the cache so far
    content,       \* lookups: the rows the lookup endpoints serve
    lookup_cache,  \* lookups: the cache of each memoized lookup function
    lookups,       \* lookups: the calls made so far, with their outcomes
    words,         \* reading_time: the word count of the last call
    text,          \* reading_time: the text built by the last call
    floats         \* reading_time: its locals years .. minutes, and its line

locals == <<jurisdiction, url_call, page, output, full_output>>
caches == <<cacheLJ, cacheLS, cacheLI, cacheDF, cacheEP>>
\* the state of a get_values call
values == <<pc, args, locals, requests, responses, stdout, result, files,
            caches, srvYears, ncalls, caller>>
\* the state of the threads calling one memoized function
memo == <<self_cache, thread, history>>
\* the state of the lookup functions
listing == <<content, lookup_cache, lookups>>
\* the state of the reading_time calls
reading == <<words, text, floats>>
\* what a get_values call leaves alone
others == <<memo, listing, reading>>
vars == <<values, others>>

\* how a call ends: it returns None, returns a table, or raises
\* How a call ends; applied names the function the series_value column
\* has been passed through, if any.
Pending == [kind |-> "pending", table |-> NoTable, exc |-> "", applied |-> ""]
ReturnNone == [kind |-> "none", table |-> NoTable, exc |-> "", applied |-> ""]
ReturnTable(t) == [kind |-> "table", table |-> t, exc |-> "", applied |-> ""]
Raise(e) == [kind |-> "raise", table |-> NoTable, exc |-> e, applied |-> ""]

\* a URL: the endpoint path and the query parameters in order
Url(path, params) == [path |-> path, params |-> params]
NoUrl == Url(<<>>, <<>>)

\* a printed line: its text and, for the verbose echo, the URL it shows
Line(msg) == [msg |-> msg, url |-> NoUrl]
UrlLine(msg, url) == [msg |-> msg, url |-> url]
Lines(msgs) == [i \in 1..Len(msgs) |-> Line(msgs[i])]

\* the defaults of get_values (lines 16-21)
Args(series, jur, year) ==
    [series |-> series, jurisdiction |-> jur, year |-> year,
     documentType |-> PyInt(1), summary |-> PyBool(TRUE),
     dateIsRange |-> PyBool(TRUE), country |-> PyBool(FALSE),
     agency |-> None, cluster |-> None, label |-> None, industry |-> None,
     filtered |-> PyBool(TRUE), labellevel |-> PyInt(3),
     industryLevel |-> None, labelsource |-> PyStr("NAICS"),
     version |-> None, download |-> PyBool(FALSE), page |-> None,
     date |-> None, verbose |-> PyInt(0)]

(* ------------------------------- inputs -------------------------------- *)

YearLists ==
    {PyList(<<PyInt(lo), PyInt(hi)>>) : lo \in Years, hi \in Years}
    \cup {PyList(<<PyInt(BaseYear), PyInt(BaseYear + 1), PyInt(BaseYear + YearSpan)>>),
          PyList(<<PyInt(BaseYear + 1)>>)}
SeriesChoices ==
    {None, PyInt(1), PyInt(9), PyFloat(1), PyList(<<PyInt(1), PyInt(2)>>)}
JurisdictionChoices ==
    {None, PyInt(58), PyInt(7), PyStr("Alaska"), PyStr("Narnia"),
     PyList(<<PyStr("Alaska"), PyStr("Alabama")>>),
     PyList(<<PyStr("Alaska"), PyStr("Narnia")>>),
     PyList(<<PyStr("Alaska"), PyInt(59)>>),
     PyList(<<PyInt(58), PyStr("Alabama")>>),
     PyList(<<>>)}
Booleans == {PyBool(TRUE), PyBool(FALSE)}

Good == Args(PyInt(1), PyInt(58), PyInt(BaseYear))

\* the required parameters varied, everything else at its default
RequiredChoices ==
    {Args(s, j, y) :
        s \in SeriesChoices, j \in JurisdictionChoices,
        y \in {None, PyInt(BaseYear + 1)}}

\* the forms of the year on a request that is otherwise good
YearChoices ==
    {[Good EXCEPT !.year = y, !.dateIsRange = r] :
        y \in YearLists \cup {PyInt(y) : y \in Years}, r \in Booleans}

\* the filters varied on a request that is otherwise good
FilterChoices ==
    {[Good EXCEPT !.agency = a, !.cluster = c, !.label = l, !.labellevel = ll] :
        a \in {None, PyInt(8777), PyList(<<PyInt(8777), PyInt(8813)>>)},
        c \in {None, PyInt(5), PyList(<<PyInt(5), PyInt(6)>>)},
        l \in {None, PyInt(22)},
        ll \in {PyInt(3), None}}
    \cup
    {[Good EXCEPT !.label = l, !.filtered = f, !.labellevel = ll, !.series = s,
                  !.summary = sm] :
        l \in {None, PyInt(22), Digits(99), PyList(<<Digits(22), Digits(49)>>)},
        f \in Booleans,
        ll \in {PyInt(3), None},
        s \in {PyInt(1), PyInt(2), PyInt(3)},
        sm \in Booleans}

\* the remaining options varied on a request that is otherwise good
OptionChoices ==
    {[Good EXCEPT !.documentType = d, !.country = c, !.version = v, !.page = p,
                  !.agency = a] :
        d \in {PyInt(1), None},
        c \in Booleans,
        v \in {None, PyInt(1)},
        p \in {None, PyInt(0), PyInt(2)},
        a \in {None, PyInt(8777)}}
    \cup
    {[Good EXCEPT !.page = p, !.download = dl, !.verbose = vb] :
        p \in {None, PyInt(0), PyInt(2)},
        dl \in {PyBool(FALSE), PyBool(TRUE), None, PyStr("out.csv"), EmptyStr},
        vb \in {PyInt(0), PyInt(1)}}

\* the deprecated spellings
DeprecatedChoices ==
    {[Good EXCEPT !.date = d, !.industry = i, !.industryLevel = il] :
        d \in {None, PyInt(BaseYear)},
        i \in {None, Digits(22)},
        il \in {None, PyInt(4)}}

ArgChoices ==
    RequiredChoices \cup YearChoices \cup FilterChoices \cup OptionChoices
    \cup DeprecatedChoices

\* what a later call of the run may ask, besides repeating the last call
FollowUps ==
    {Good, Args(None, PyInt(58), PyInt(BaseYear)),
     Args(PyInt(1), PyStr("Alaska"), PyInt(BaseYear))}

(* --------------------------------- Init -------------------------------- *)

\* the threads that share the memoized function, and what they call it with
Threads == {1, 2}
MemoKeys == {"k1", "k2"}
\* what the wrapped function may return: the absent value included
Returns == {"a", "b", "None"}
Unset == "unset"

\* a thread outside __call__; was and ran are kept for the record: whether
\* the key was stored when the call began, whether the call ran func
IdleThread ==
    [pc |-> "idle", key |-> "k1", value |-> Unset, was |-> FALSE, ran |-> FALSE,
     ret |-> [kind |-> "pending", value |-> Unset]]

\* no thread has called the memoized function
MemoInit ==
    /\ self_cache = << >>
    /\ thread = [t \in Threads |-> IdleThread]
    /\ history = [calls |-> 0, overlapped |-> FALSE,
                  returned |-> [k \in MemoKeys |-> 0],
                  answers |-> [k \in MemoKeys |-> {}],
                  firstStore |-> [k \in MemoKeys |-> Unset],
                  lastStore |-> [k \in MemoKeys |-> Unset]]

\* the lookup functions are not in use
NoLookups ==
    /\ content = <<>>
    /\ lookup_cache = << >>
    /\ lookups = <<>>

\* reading_time has not been called
NoReading ==
    /\ words = 0
    /\ text = <<>>
    /\ floats = [line |-> "idle", years |-> [bits |-> <<>>, point |-> 0],
                 weeks |-> [bits |-> <<>>, point |-> 0],
                 days |-> [bits |-> <<>>, point |-> 0],
                 hours |-> [bits |-> <<>>, point |-> 0],
                 minutes |-> [bits |-> <<>>, point |-> 0]]

Init ==
    /\ MemoInit
    /\ NoLookups
    /\ NoReading
    /\ pc = "idle"
    /\ args = Good
    /\ jurisdiction = None
    /\ url_call = NoUrl
    /\ page = None
    /\ output = NoTable
    /\ full_output = NoTable
    /\ requests = <<>>
    /\ responses = <<>>
    /\ stdout = <<>>
    /\ result = Pending
    /\ files = << >>
    /\ cacheLJ = << >>
    /\ cacheLS = << >>
    /\ cacheLI = << >>
    /\ cacheDF = << >>
    /\ cacheEP = << >>
    /\ srvYears \in (SUBSET Years) \ {{}}
    /\ ncalls = 0
    /\ caller = "get_values"

\* the call is over: result r, after printing out and sending reqs
Finish(r, out, reqs) ==
    /\ pc' = "done"
    /\ result' = r
    /\ stdout' = stdout \o out
    /\ requests' = requests \o reqs

\* the call moves on to step p, after printing out and sending reqs
Goto(p, out, reqs) ==
    /\ pc' = p
    /\ result' = result
    /\ stdout' = stdout \o out
    /\ requests' = requests \o reqs

(* ------------------------------ get_values ----------------------------- *)

\* get_values(...) is called; lines 56-58: date is deprecated
\* the user calls fn, which enters get_values with the arguments a
Enter(a, fn) ==
    /\ \/ pc \in {"idle", "returned"}
       \/ pc = "done" /\ caller = "get_values"
    /\ caller' = fn
    /\ ncalls < MaxCalls
    /\ ncalls = 0 \/ a = args \/ a \in FollowUps
    /\ ncalls' = ncalls + 1
    /\ args' = a
    /\ jurisdiction' = a.jurisdiction
    /\ url_call' = NoUrl
    /\ page' = a.page
    /\ output' = NoTable
    /\ full_output' = NoTable
    /\ responses' = <<>>
    /\ requests' = <<>>
    /\ IF Truthy(a.date)
       THEN /\ pc' = "done"
            /\ result' = ReturnNone
            /\ stdout' = Lines(<<MsgDateDeprecated>>)
       ELSE /\ pc' = "resolve"
            /\ result' = Pending
            /\ stdout' = <<>>
    /\ UNCHANGED others
    /\ UNCHANGED <<files, caches, srvYears>>

\* get_values(**a)
Call(a) == Enter(a, "get_values")

\* get_reading_time(**a): get_values(series=2, **a)
ReadingTimeCall(a) ==
    /\ a.series = PyInt(2)
    /\ Enter(a, "get_reading_time")

\* lines 60-66: jurisdiction names are replaced by ids
ResolveJurisdiction ==
    /\ pc = "resolve"
    /\ LET j == jurisdiction
           lj == list_jurisdictions(cacheLJ)
           excs == [i \in 1..Len(j.l) |-> JurisdictionKeyExc(j.l[i])]
       IN  IF j.t = "list" /\ j.l = <<>>
           THEN \* jurisdiction[0] of an empty list
                /\ Finish(Raise("IndexError"), <<>>, <<>>)
                /\ UNCHANGED <<jurisdiction, cacheLJ>>
           ELSE IF j.t = "list" /\ HasAlpha(j.l[1])
           THEN /\ cacheLJ' = lj.cache
                /\ IF \E i \in 1..Len(j.l) : excs[i] # ""
                   THEN /\ Finish(Raise(excs[CHOOSE i \in 1..Len(j.l) :
                                           /\ excs[i] # ""
                                           /\ \A k \in 1..(i - 1) : excs[k] = ""]),
                                  <<>>, lj.reqs)
                        /\ UNCHANGED jurisdiction
                   ELSE /\ Goto("endpoint", <<>>, lj.reqs)
                        /\ jurisdiction' =
                             PyList([i \in 1..Len(j.l) |-> JurisdictionOf(j.l[i])])
           ELSE IF Truthy(j) /\ SearchAlpha(j)
           THEN /\ cacheLJ' = lj.cache
                /\ IF JurisdictionKeyExc(j) # ""
                   THEN /\ Finish(Raise(JurisdictionKeyExc(j)), <<>>, lj.reqs)
                        /\ UNCHANGED jurisdiction
                   ELSE /\ Goto("endpoint", <<>>, lj.reqs)
                        /\ jurisdiction' = JurisdictionOf(j)
           ELSE /\ Goto("endpoint", <<>>, <<>>)
                /\ UNCHANGED <<jurisdiction, cacheLJ>>
    /\ UNCHANGED <<others, caller>>
    /\ UNCHANGED <<args, url_call, page, output, full_output, responses, files,
                   cacheLS, cacheLI, cacheDF, cacheEP, srvYears, ncalls>>

\* lines 72-96, given the outcome e of get_endpoint, the outcome d of the
\* get_datafinder call that prints the table and the outcome lj of
\* list_jurisdictions
EndpointStep(e, d, lj) ==
    /\ cacheEP' = e.cache
    /\ IF e.exc = "IndexError"
       THEN /\ cacheDF' = d.cache
            /\ cacheLJ' = cacheLJ
            /\ url_call' = url_call
            /\ IF d.exc # ""
               THEN Finish(Raise(d.exc), Lines(<<MsgNoData>>), e.reqs \o d.reqs)
               ELSE Finish(ReturnNone, Lines(<<MsgNoData, ShownDatafinder>>),
                           e.reqs \o d.reqs)
       ELSE IF e.exc # ""
       THEN /\ cacheDF' = e.dfcache
            /\ cacheLJ' = cacheLJ
            /\ url_call' = url_call
            /\ Finish(Raise(e.exc), <<>>, e.reqs)
       ELSE IF EndpointTruthy(e.value)
       THEN /\ cacheDF' = e.dfcache
            /\ cacheLJ' = cacheLJ
            /\ url_call' = Url(e.value.path, <<>>)
            /\ Goto("build", <<>>, e.reqs)
       ELSE /\ cacheDF' = d.cache
            /\ url_call' = url_call
            /\ IF d.exc = "TypeError"
               THEN /\ cacheLJ' = lj.cache
                    /\ Finish(ReturnNone,
                              Lines(<<MsgJurisdictionConsider, ShownJurisdictions>>),
                              e.reqs \o d.reqs \o lj.reqs)
               ELSE /\ cacheLJ' = cacheLJ
                    /\ Finish(ReturnNone, Lines(<<MsgNoData, ShownDatafinder>>),
                              e.reqs \o d.reqs)

\* the get_datafinder call of lines 78 and 91, after get_endpoint gave e
EndpointThen(e) ==
    EndpointStep(e,
                 get_datafinder(e.dfcache, srvYears, jurisdiction,
                                args.documentType),
                 list_jurisdictions(cacheLJ))

\* lines 68-96: the endpoint is looked up in the discovery table; without
\* one the call prints a diagnostic and returns
SelectEndpoint(nc) ==
    /\ pc = "endpoint"
    /\ EndpointThen(get_endpoint(cacheEP, cacheDF, srvYears, args.series,
                                 jurisdiction, args.year, args.documentType,
                                 args.summary, nc))
    /\ UNCHANGED <<others, caller>>
    /\ UNCHANGED <<args, jurisdiction, page, output, full_output, responses,
                   files, cacheLS, cacheLI, srvYears, ncalls>>

(* --------------------- get_values, lines 98-213 ------------------------ *)

\* The state of the URL assembly: st.status is "ok" while the code goes on,
\* "return" after a bare return, "raise" after an uncaught exception.
BuildStart(a, jur, url, ls, lj, li) ==
    [status |-> "ok", exc |-> "", url |-> url, out |-> <<>>, reqs |-> <<>>,
     series |-> a.series, jurisdiction |-> jur, agency |-> a.agency,
     cluster |-> a.cluster, label |-> a.label, labellevel |-> a.labellevel,
     year |-> a.year, ls |-> ls, lj |-> lj, li |-> li]

\* url_call += '&k=v'
AddParam(st, k, v) ==
    [st EXCEPT !.url = Url(st.url.path, Append(st.url.params, Param(k, v)))]
Say(st, msg) == [st EXCEPT !.out = Append(st.out, Line(msg))]
Stop(st) == [st EXCEPT !.status = "return"]
Throw(st, e) == [st EXCEPT !.status = "raise", !.exc = e]

\* type(x) in [int, str]
IsIntOrStr(x) == x.t \in {"int", "str", "estr"}

\* lines 98-108
BuildSeries(st) ==
    IF st.series.t = "list" THEN AddParam(st, "series", Join(st.series.l))
    ELSE IF IsIntOrStr(st.series) THEN AddParam(st, "series", Fmt(st.series))
    ELSE LET ls == list_series(st.ls)
         IN  Stop([Say(Say(st, MsgSeries), ShownSeries)
                   EXCEPT !.ls = ls.cache, !.reqs = st.reqs \o ls.reqs])

\* lines 110-121
BuildJurisdiction(st) ==
    IF st.status # "ok" THEN st
    ELSE IF st.jurisdiction.t = "list"
    THEN AddParam(st, "jurisdiction", Join(st.jurisdiction.l))
    ELSE IF IsIntOrStr(st.jurisdiction)
    THEN AddParam(st, "jurisdiction", Fmt(st.jurisdiction))
    ELSE LET lj == list_jurisdictions(st.lj)
         IN  Stop([Say(Say(st, MsgJurisdiction), ShownJurisdictions)
                   EXCEPT !.lj = lj.cache, !.reqs = st.reqs \o lj.reqs])

\* lines 123-127 and 129-133: a list is joined, a truthy value formatted
BuildOptional(st, k, x) ==
    IF st.status # "ok" THEN st
    ELSE IF x.t = "list" THEN AddParam(st, k, Join(x.l))
    ELSE IF Truthy(x) THEN AddParam(st, k, Fmt(x))
    ELSE st

\* lines 135-141: the deprecated spellings replace label and labellevel
BuildDeprecated(st, a) ==
    IF st.status # "ok" THEN st
    ELSE LET s1 == IF Truthy(a.industry)
                   THEN [Say(st, MsgIndustry) EXCEPT !.label = a.industry]
                   ELSE st
         IN  IF Truthy(a.industryLevel)
             THEN [Say(s1, MsgIndustryLevel) EXCEPT !.labellevel = a.industryLevel]
             ELSE s1

\* the first KeyError of [d[str(i)] for i in l], "" when every code is known
LabelListExc(l) ==
    IF \E i \in 1..Len(l) : LabelKeyExc(l[i]) # "" THEN "KeyError" ELSE ""

\* lines 142-157: NAICS codes are replaced by label ids
BuildLabel(st, a) ==
    IF st.status # "ok" THEN st
    ELSE
    LET naics == a.labelsource = PyStr("NAICS")
        li == list_industries(st.li, st.labellevel, a.labelsource)
        looked == [st EXCEPT !.li = li.cache, !.reqs = st.reqs \o li.reqs]
        s1 ==
          IF st.label.t = "list"
          THEN IF naics /\ st.label.l # <<>>
               THEN IF LabelListExc(st.label.l) # ""
                    THEN Throw(looked, "KeyError")
                    ELSE LET ids == [i \in 1..Len(st.label.l) |->
                                        LabelOf(st.label.l[i])]
                         IN  AddParam([looked EXCEPT !.label = PyList(ids)],
                                      "label", Join(ids))
               ELSE AddParam(st, "label", Join(st.label.l))
          ELSE IF Truthy(st.label)
          THEN IF naics
               THEN IF LabelKeyExc(st.label) # ""
                    THEN Throw(looked, "KeyError")
                    ELSE AddParam([looked EXCEPT !.label = LabelOf(st.label)],
                                  "label", Fmt(LabelOf(st.label)))
               ELSE AddParam(st, "label", Fmt(st.label))
          ELSE st
    IN  IF s1.status = "ok" /\ Truthy(s1.labellevel)
        THEN AddParam(s1, "labelLevel", Fmt(s1.labellevel))
        ELSE s1

\* lines 159-175: a two-element list is expanded to the inclusive range;
\* list_dates is called with a keyword it does not take, which raises
BuildYear(st, a) ==
    IF st.status # "ok" THEN st
    ELSE IF st.year.t = "list"
    THEN IF Truthy(a.dateIsRange) /\ Len(st.year.l) = 2
         THEN IF IntListExc(st.year.l) # ""
              THEN Throw(st, IntListExc(st.year.l))
              ELSE AddParam(st, "year",
                            Join(IntRange(st.year.l[1].n, st.year.l[2].n)))
         ELSE AddParam(st, "year", Join(st.year.l))
    ELSE IF DateFormatMatch(st.year) THEN AddParam(st, "year", Fmt(st.year))
    ELSE Throw(Say(st, MsgDate), "TypeError")

\* url_call.replace('/summary', '/documents')
ReplaceSummary(path) ==
    [i \in 1..Len(path) |-> IF path[i] = "/summary" THEN "/documents" ELSE path[i]]

\* as BuildToggles, the version written to the URL (line 202 restored)
BuildTogglesVersion(st, a) ==
    IF st.status # "ok" THEN st
    ELSE
    LET s1 == IF ~Truthy(a.summary)
              THEN [(IF Truthy(st.label) THEN Say(st, MsgDocumentLevel) ELSE st)
                    EXCEPT !.url = Url(ReplaceSummary(st.url.path), st.url.params)]
              ELSE st
        s2 == IF Truthy(s1.label) /\ ~Truthy(a.filtered)
              THEN AddParam(Say(s1, MsgUnfiltered), "filteredOnly", <<Tok(0, "false")>>)
              ELSE s1
        s3 == IF Truthy(a.documentType)
              THEN AddParam(s2, "documenttype", Fmt(a.documentType))
              ELSE s2
        s4 == IF Truthy(a.country) THEN Say(s3, MsgCountry) ELSE s3
    IN  IF Truthy(a.version)
        THEN AddParam(Say(s4, MsgVersion), "version", Fmt(a.version))
        ELSE s4

\* lines 177-203
BuildToggles(st, a) ==
    IF st.status # "ok" THEN st
    ELSE
    LET s1 == IF ~Truthy(a.summary)
              THEN [(IF Truthy(st.label) THEN Say(st, MsgDocumentLevel) ELSE st)
                    EXCEPT !.url = Url(ReplaceSummary(st.url.path), st.url.params)]
              ELSE st
        s2 == IF Truthy(s1.label) /\ ~Truthy(a.filtered)
              THEN AddParam(Say(s1, MsgUnfiltered), "filteredOnly", <<Tok(0, "false")>>)
              ELSE s1
        s3 == IF Truthy(a.documentType)
              THEN AddParam(s2, "documenttype", Fmt(a.documentType))
              ELSE s2
        s4 == IF Truthy(a.country) THEN Say(s3, MsgCountry) ELSE s3
    IN  IF Truthy(a.version) THEN Say(s4, MsgVersion) ELSE s4

\* lines 205-213: the verbose echo, then the page cursor
BuildPage(st, a) ==
    IF st.status # "ok" THEN st
    ELSE
    LET s1 == IF Truthy(a.verbose)
              THEN [st EXCEPT !.out = Append(st.out, UrlLine(MsgApiCall, st.url))]
              ELSE st
    IN  IF Truthy(a.page) THEN AddParam(s1, "page", Fmt(a.page)) ELSE s1

\* lines 98-213
BuildUrlCall(a, jur, url, ls, lj, li) ==
    BuildPage(
      BuildToggles(
        BuildYear(
          BuildLabel(
            BuildDeprecated(
              BuildOptional(
                BuildOptional(
                  BuildJurisdiction(
                    BuildSeries(BuildStart(a, jur, url, ls, lj, li))),
                  "agency", a.agency),
                "cluster", a.cluster),
              a),
            a),
          a),
        a),
      a)

\* the step that assembles the URL, given the outcome st of lines 98-213
BuildStep(st) ==
    /\ cacheLS' = st.ls
    /\ cacheLJ' = st.lj
    /\ cacheLI' = st.li
    /\ url_call' = st.url
    /\ CASE st.status = "ok" -> Goto("fetch", st.out, st.reqs)
         [] st.status = "return" -> Finish(ReturnNone, st.out, st.reqs)
         [] OTHER -> Finish(Raise(st.exc), st.out, st.reqs)

BuildUrl ==
    /\ pc = "build"
    /\ BuildStep(BuildUrlCall(args, jurisdiction, url_call, cacheLS, cacheLJ,
                              cacheLI))
    /\ UNCHANGED <<others, caller>>
    /\ UNCHANGED <<args, jurisdiction, page, output, full_output, responses,
                   files, cacheDF, cacheEP, srvYears, ncalls>>

(* --------------------- get_values, lines 215-245 ----------------------- *)

\* the value of parameter k in a parameter list, <<>> when it is absent
RECURSIVE ParamValue(_, _)
ParamValue(params, k) ==
    IF params = <<>> THEN <<>>
    ELSE IF params[1].k = k THEN params[1].v
    ELSE ParamValue(Tail(params), k)

\* The answers the server may give to a values request for page p: rows
\* (a full page only below MaxPage) for the years asked that it has data
\* for, or an error envelope.
ValuesAnswers(srv, params, p) ==
    {RowsResponse(n, YearsAsked(ParamValue(params, "year")) \cap srv) :
        n \in {0, 7} \cup (IF p < MaxPage THEN {PageCeiling} ELSE {})}
    \cup {ErrorResponse(f) : f \in EnvelopeFields}

\* json_normalize(json.loads(response)) of a rows response
Normalize(resp, p) ==
    Table(RawColumns, <<[page |-> p, n |-> resp.n, years |-> resp.years]>>)

\* print_error(output): 'message', else 'errorMessage', else KeyError
print_error(resp) ==
    IF resp.field \in {"message", "errorMessage"}
    THEN Outcome("", None, <<>>, <<Line(MsgError)>>)
    ELSE Outcome("KeyError", None, <<>>, <<>>)

\* url_call + f'&page={page}'
WithPage(url, p) == Url(url.path, Append(url.params, Param("page", Fmt(p))))

\* as Truncated, the comparison written ">" for "=="
TruncatedAbove(out, p) == Rows(out) > PageCeiling /\ ~Truthy(p)

\* "len(output) == 5000 and not page"
Truncated(out, p) == Rows(out) = PageCeiling /\ ~Truthy(p)

\* lines 215-227: the first request; an error envelope is reported
FirstRequest(resp) ==
    /\ pc = "fetch"
    /\ LET pageNo == IF Truthy(page) THEN page.n ELSE 1
           req == Request("values", url_call.path, url_call.params)
           out == Normalize(resp, pageNo)
           err == print_error(resp)
       IN  /\ resp \in ValuesAnswers(srvYears, url_call.params, pageNo)
           /\ responses' = Append(responses, resp)
           /\ IF resp.kind = "error"
              THEN /\ IF err.exc = ""
                      THEN Finish(ReturnNone, err.out, <<req>>)
                      ELSE Finish(Raise(err.exc), err.out, <<req>>)
                   /\ UNCHANGED <<output, full_output, page>>
              ELSE /\ output' = out
                   /\ IF Truncated(out, page)
                      THEN /\ full_output' = out
                           /\ page' = PyInt(1)
                           /\ Goto("paginate", <<>>, <<req>>)
                      ELSE /\ Goto("deliver", <<>>, <<req>>)
                           /\ UNCHANGED <<full_output, page>>
    /\ UNCHANGED <<others, caller>>
    /\ UNCHANGED <<args, jurisdiction, url_call, files, caches, srvYears, ncalls>>

\* lines 228-235: one turn of the pagination loop; json.loads of an error
\* envelope raises TypeError, which nothing catches here
NextPage(resp) ==
    /\ pc = "paginate"
    /\ Rows(output) = PageCeiling
    /\ LET next == PyInt(page.n + 1)
           url == WithPage(url_call, next)
           req == Request("values", url.path, url.params)
           out == Normalize(resp, next.n)
           echo == IF Truthy(args.verbose)
                   THEN <<UrlLine(MsgTruncated, Url(<<>>, <<Param("page", Fmt(page))>>))>>
                   ELSE <<>>
       IN  /\ resp \in ValuesAnswers(srvYears, url.params, next.n)
           /\ responses' = Append(responses, resp)
           /\ page' = next
           /\ IF resp.kind = "error"
              THEN /\ Finish(Raise("TypeError"), echo, <<req>>)
                   /\ UNCHANGED <<output, full_output>>
              ELSE /\ full_output' = concat(full_output, out)
                   /\ IF Rows(out) = PageCeiling
                      THEN /\ output' = out
                           /\ Goto("paginate", echo, <<req>>)
                      ELSE /\ output' = concat(full_output, out)
                           /\ Goto("deliver", echo, <<req>>)
    /\ UNCHANGED <<others, caller>>
    /\ UNCHANGED <<args, jurisdiction, url_call, files, caches, srvYears, ncalls>>

\* "if download": the download argument is truthy
WantsDownload(download) == Truthy(download)

\* lines 237-245: the table is written to the path, or returned
Deliver ==
    /\ pc = "deliver"
    /\ LET dl == args.download
       IN  IF WantsDownload(dl)
           THEN IF dl.t = "str"
                THEN /\ files' = [f \in (DOMAIN files) \cup {dl.s} |->
                                    IF f = dl.s THEN clean_columns(output)
                                    ELSE files[f]]
                     /\ Finish(ReturnNone, <<>>, <<>>)
                ELSE /\ files' = files
                     /\ Finish(ReturnNone, <<Line(MsgOutpath)>>, <<>>)
           ELSE /\ files' = files
                /\ Finish(ReturnTable(clean_columns(output)), <<>>, <<>>)
    /\ UNCHANGED <<others, caller>>
    /\ UNCHANGED <<args, locals, responses, caches, srvYears, ncalls>>

(* ----------------------------- specification --------------------------- *)

Responses ==
    {RowsResponse(n, ys) : n \in {0, 7, PageCeiling}, ys \in SUBSET Years}
    \cup {ErrorResponse(f) : f \in EnvelopeFields}

\* pandas: df[c] = ... replaces the column c, or appends it when it is new
SetColumn(cols, c) ==
    IF \E i \in 1..Len(cols) : cols[i] = c THEN cols ELSE Append(cols, c)

\* get_reading_time after get_values returned results: the three
\* assignments into results, which raise TypeError when results is None;
\* an exception of get_values passes through
ReadingTimeResult(results) ==
    IF results.kind = "none" THEN Raise("TypeError")
    ELSE IF results.kind = "raise" THEN results
    ELSE [kind |-> "table",
          table |-> Table(SetColumn(SetColumn(results.table.cols, <<"series_name">>),
                                    <<"footNote">>),
                          results.table.blocks),
          exc |-> "",
          applied |-> "reading_time"]

ReadingTimeReturn ==
    /\ pc = "done"
    /\ caller = "get_reading_time"
    /\ pc' = "returned"
    /\ result' = ReadingTimeResult(result)
    /\ UNCHANGED others
    /\ UNCHANGED <<args, locals, requests, responses, stdout, files, caches,
                   srvYears, ncalls, caller>>

Next ==
    \/ \E a \in ArgChoices : Call(a)
    \/ \E a \in ArgChoices : ReadingTimeCall(a)
    \/ ReadingTimeReturn
    \/ ResolveJurisdiction
    \/ \E nc \in NoneCompare : SelectEndpoint(nc)
    \/ BuildUrl
    \/ \E resp \in Responses : FirstRequest(resp)
    \/ \E resp \in Responses : NextPage(resp)
    \/ Deliver

Spec == Init /\ [][Next]_vars

(* ---------------------- Memoized.__call__, by thread ------------------- *)

\* as Cached, the stored value never found
CachedNever(c, key) == FALSE

\* line 19: (str(args), str(kwargs)) in self.cache
Cached(c, key) == key \in DOMAIN c

\* as Store, an entry already there left as it is
StoreIfAbsent(c, key, value) == c @@ (key :> value)

\* line 23: self.cache[str(args), str(kwargs)] = value
Store(c, key, value) == (key :> value) @@ c

\* some thread other than t is inside __call__
Busy(t) == \E u \in Threads \ {t} : thread[u].pc \notin {"idle", "done"}

\* line 14: thread t calls the memoized function with the arguments of key
\* k; args is a tuple, so the Hashable test of line 15 passes
MemoCall(t, k) ==
    /\ thread[t].pc \in {"idle", "done"}
    /\ history.calls < MemoCalls
    /\ thread' = [thread EXCEPT ![t] =
                    [IdleThread EXCEPT !.pc = "lookup", !.key = k,
                                       !.was = k \in DOMAIN self_cache]]
    /\ history' = [history EXCEPT !.calls = @ + 1,
                                  !.overlapped = @ \/ Busy(t)]
    /\ UNCHANGED <<self_cache, values, listing, reading>>

\* line 19: the test of the cache
MemoLookup(t) ==
    /\ thread[t].pc = "lookup"
    /\ thread' = [thread EXCEPT ![t].pc =
                    IF Cached(self_cache, thread[t].key) THEN "hit" ELSE "call"]
    /\ UNCHANGED <<self_cache, history, values, listing, reading>>

\* line 20: the stored value is returned
MemoHit(t) ==
    /\ thread[t].pc = "hit"
    /\ thread' = [thread EXCEPT
                    ![t].pc = "done",
                    ![t].ret = [kind |-> "value",
                                value |-> self_cache[thread[t].key]]]
    /\ UNCHANGED <<self_cache, history, values, listing, reading>>

\* line 22: func runs and returns v
MemoInvoke(t, v) ==
    /\ thread[t].pc = "call"
    /\ thread' = [thread EXCEPT ![t].pc = "store", ![t].value = v,
                                ![t].ran = TRUE]
    /\ history' = [history EXCEPT
                     !.returned[thread[t].key] = @ + 1,
                     !.answers[thread[t].key] = @ \cup {v}]
    /\ UNCHANGED <<self_cache, values, listing, reading>>

\* line 22: func raises, and so does __call__
MemoRaise(t) ==
    /\ thread[t].pc = "call"
    /\ thread' = [thread EXCEPT ![t].pc = "done", ![t].ran = TRUE,
                                ![t].ret = [kind |-> "raise", value |-> Unset]]
    /\ UNCHANGED <<self_cache, history, values, listing, reading>>

\* lines 23-24: the value is stored and returned
MemoStore(t) ==
    /\ thread[t].pc = "store"
    /\ self_cache' = Store(self_cache, thread[t].key, thread[t].value)
    /\ thread' = [thread EXCEPT
                    ![t].pc = "done",
                    ![t].ret = [kind |-> "value", value |-> thread[t].value]]
    /\ history' = [history EXCEPT
                     !.lastStore[thread[t].key] = thread[t].value,
                     !.firstStore[thread[t].key] =
                        IF @ = Unset THEN thread[t].value ELSE @]
    /\ UNCHANGED <<values, listing, reading>>

\* no get_values call is under way
ValuesInit ==
    /\ pc = "idle"
    /\ args = Good
    /\ jurisdiction = None
    /\ url_call = NoUrl
    /\ page = None
    /\ output = NoTable
    /\ full_output = NoTable
    /\ requests = <<>>
    /\ responses = <<>>
    /\ stdout = <<>>
    /\ result = Pending
    /\ files = << >>
    /\ cacheLJ = << >>
    /\ cacheLS = << >>
    /\ cacheLI = << >>
    /\ cacheDF = << >>
    /\ cacheEP = << >>
    /\ srvYears = Years
    /\ ncalls = 0
    /\ caller = "get_values"

MemoStart == MemoInit /\ ValuesInit /\ NoLookups /\ NoReading

MemoNext ==
    \/ \E t \in Threads, k \in MemoKeys : MemoCall(t, k)
    \/ \E t \in Threads : MemoLookup(t)
    \/ \E t \in Threads : MemoHit(t)
    \/ \E t \in Threads, v \in Returns : MemoInvoke(t, v)
    \/ \E t \in Threads : MemoRaise(t)
    \/ \E t \in Threads : MemoStore(t)

\* the threads of one process calling one memoized function
SpecMemo == MemoStart /\ [][MemoNext]_vars

(* -------------------- list_* and get_agencies, by call ------------------ *)

\* display names, by their rank in string order; 0 is the empty string
Names == {0, 1, 2}
\* the identifiers a lookup endpoint serves
Ids == {58, 59}
\* the jurisdiction every served agency belongs to
AgencyJurisdiction == 58

\* one row of a lookup endpoint's JSON answer
LookupRow(name, id) == [name |-> name, id |-> id, jur |-> AgencyJurisdiction]
LookupRowSet == {LookupRow(n, i) : n \in Names, i \in Ids}
\* what the server may serve: any rows, repeated names and ids included
Contents == UNION {[1..k -> LookupRowSet] : k \in 0..LookupRows}

\* what a lookup returns: None, a dictionary (its items in order) or a table
NoneValue == [kind |-> "none", items |-> <<>>]
DictValue(items) == [kind |-> "dict", items |-> items]
TableValue(rows) == [kind |-> "table", items |-> rows]

\* a dictionary key or value: a name, f'{name} ({jurisdiction})', or an id
NameOf(row) == <<row.name>>
NameWithJurisdiction(row) == <<row.name, row.jur>>
IdentifierOf(row) == <<row.id>>

\* Python's order on keys of one kind
KeyLess(a, b) ==
    \/ \E i \in 1..Len(a) :
        /\ i <= Len(b)
        /\ a[i] < b[i]
        /\ \A j \in 1..(i - 1) : a[j] = b[j]
    \/ /\ Len(a) < Len(b)
       /\ \A j \in 1..Len(a) : a[j] = b[j]

\* {key: value for row in rows}: a later row replaces an earlier one with
\* the same key
RECURSIVE DictOf(_)
DictOf(pairs) ==
    IF pairs = <<>> THEN << >>
    ELSE (pairs[Len(pairs)][1] :> pairs[Len(pairs)][2])
         @@ DictOf(SubSeq(pairs, 1, Len(pairs) - 1))

\* as SortedKeys, the largest key first
RECURSIVE SortedKeysDescending(_)
SortedKeysDescending(keys) ==
    IF keys = {} THEN <<>>
    ELSE <<CHOOSE k \in keys : \A o \in keys \ {k} : KeyLess(o, k)>>
         \o SortedKeysDescending(
                keys \ {CHOOSE k \in keys : \A o \in keys \ {k} : KeyLess(o, k)})

\* the keys of sorted(d.items()): ascending
RECURSIVE SortedKeys(_)
SortedKeys(keys) ==
    IF keys = {} THEN <<>>
    ELSE <<CHOOSE k \in keys : \A o \in keys \ {k} : KeyLess(k, o)>>
         \o SortedKeys(
                keys \ {CHOOSE k \in keys : \A o \in keys \ {k} : KeyLess(k, o)})

\* dict(sorted(d.items()))
ItemsInOrder(d, keys) == [i \in 1..Len(keys) |-> <<keys[i], d[keys[i]]>>]
SortedDict(d) == DictValue(ItemsInOrder(d, SortedKeys(DOMAIN d)))

\* the rows a comprehension keeps: "if d[name]" drops an empty name
RECURSIVE Kept(_, _)
Kept(rows, filtered) ==
    IF rows = <<>> THEN <<>>
    ELSE (IF filtered /\ rows[1].name = 0 THEN <<>> ELSE <<rows[1]>>)
         \o Kept(Tail(rows), filtered)

\* the (key, value) pairs of the comprehension
Pairs(rows, reverse, composite) ==
    [i \in 1..Len(rows) |->
        IF reverse
        THEN <<IdentifierOf(rows[i]),
               IF composite THEN NameWithJurisdiction(rows[i]) ELSE NameOf(rows[i])>>
        ELSE <<IF composite THEN NameWithJurisdiction(rows[i]) ELSE NameOf(rows[i]),
               IdentifierOf(rows[i])>>]

\* the cache of each memoized lookup function
NoCaches ==
    [list_series |-> << >>, list_agencies |-> << >>,
     get_agencies |-> << >>, get_jurisdictions |-> << >>]

\* list_series(reverse=), memoized
list_series_mapping(cache, rows, reverse) ==
    Memoized(cache, CacheKey(<<>>, <<reverse>>),
             Outcome("", SortedDict(DictOf(Pairs(rows, Truthy(reverse), FALSE))),
                     <<Request("dataseries", <<"/dataseries">>, <<>>)>>, <<>>))

\* agency_url: the keyword endpoint first, then the jurisdiction endpoint,
\* else the message and None
MustInclude == "Must include either \"jurisdictionID\" or \"keyword.\""
agency_url(jurisdictionID, keyword) ==
    IF Truthy(keyword)
    THEN [found |-> TRUE, out |-> <<>>,
          req |-> Request("agencies-keyword", <<"/agencies-keyword">>,
                          <<Param("keyword", Fmt(keyword))>>)]
    ELSE IF Truthy(jurisdictionID)
    THEN [found |-> TRUE, out |-> <<>>,
          req |-> Request("agencies", <<"/agencies">>,
                          <<Param("jurisdiction", Fmt(jurisdictionID))>>)]
    ELSE [found |-> FALSE, out |-> <<Line(MustInclude)>>,
          req |-> Request("", <<>>, <<>>)]

\* get_agencies(jurisdictionID=, keyword=, verbose=), memoized
get_agencies_body(agency_call, rows, verbose) ==
    IF ~agency_call.found
    THEN Outcome("", NoneValue, <<>>, agency_call.out)
    ELSE Outcome("", TableValue(rows), <<agency_call.req>>,
                 IF Truthy(verbose)
                 THEN <<UrlLine("API call", Url(agency_call.req.path, agency_call.req.params))>>
                 ELSE <<>>)

get_agencies(cache, rows, jurisdictionID, keyword, verbose) ==
    Memoized(cache, CacheKey(<<>>, <<jurisdictionID, keyword, verbose>>),
             get_agencies_body(agency_url(jurisdictionID, keyword), rows, verbose))

\* get_jurisdictions(), memoized
get_jurisdictions(cache) ==
    Memoized(cache, CacheKey(<<>>, <<>>),
             Outcome("", TableValue(<<>>),
                     <<Request("jurisdictions", <<"/jurisdictions/">>, <<>>)>>,
                     <<>>))

\* the body of list_agencies: nothing but the message without a selector;
\* otherwise the agencies request, get_jurisdictions() and the dictionary,
\* its names carrying the jurisdiction when a keyword is used
list_agencies_body(jcache, agency_call, rows, keyword, reverse) ==
    IF ~agency_call.found
    THEN [exc |-> "", value |-> NoneValue, reqs |-> <<>>,
          out |-> agency_call.out, jcache |-> jcache]
    ELSE [exc |-> "",
          value |-> SortedDict(DictOf(Pairs(Kept(rows, TRUE), Truthy(reverse),
                                            Truthy(keyword)))),
          reqs |-> <<agency_call.req>> \o get_jurisdictions(jcache).reqs,
          out |-> <<>>,
          jcache |-> get_jurisdictions(jcache).cache]

\* one finished call of a lookup function
LookupCall(fn, jurisdictionID, keyword, reverse, hit, m) ==
    [fn |-> fn, jurisdictionID |-> jurisdictionID, keyword |-> keyword,
     reverse |-> reverse, hit |-> hit,
     value |-> m.value, reqs |-> m.reqs, out |-> m.out]

\* list_series(reverse=reverse)
ListSeries(reverse) ==
    /\ Len(lookups) < MaxLookups
    /\ lookup_cache' =
        [lookup_cache EXCEPT !.list_series =
            list_series_mapping(@, content, reverse).cache]
    /\ lookups' =
        Append(lookups,
               LookupCall("list_series", None, None, reverse,
                          CacheKey(<<>>, <<reverse>>) \in DOMAIN lookup_cache.list_series,
                          list_series_mapping(lookup_cache.list_series, content, reverse)))
    /\ UNCHANGED <<content, values, memo, reading>>

\* get_agencies(jurisdictionID=jurisdictionID, keyword=keyword, verbose=0)
GetAgencies(jurisdictionID, keyword) ==
    /\ Len(lookups) < MaxLookups
    /\ lookup_cache' =
        [lookup_cache EXCEPT !.get_agencies =
            get_agencies(@, content, jurisdictionID, keyword, PyInt(0)).cache]
    /\ lookups' =
        Append(lookups,
               LookupCall("get_agencies", jurisdictionID, keyword, PyBool(FALSE),
                          CacheKey(<<>>, <<jurisdictionID, keyword, PyInt(0)>>)
                              \in DOMAIN lookup_cache.get_agencies,
                          get_agencies(lookup_cache.get_agencies, content,
                                       jurisdictionID, keyword, PyInt(0))))
    /\ UNCHANGED <<content, values, memo, reading>>

\* list_agencies(jurisdictionID=jurisdictionID, keyword=keyword,
\* reverse=reverse): on a miss the body runs, and with it get_jurisdictions()
ListAgenciesStep(key, body, m) ==
    /\ lookup_cache' =
        [lookup_cache EXCEPT
            !.list_agencies = m.cache,
            !.get_jurisdictions =
                IF key \in DOMAIN lookup_cache.list_agencies THEN @ ELSE body.jcache]
    /\ lookups' =
        Append(lookups,
               LookupCall("list_agencies", body.jurisdictionID, body.keyword,
                          body.reverse,
                          key \in DOMAIN lookup_cache.list_agencies, m))

ListAgencies(jurisdictionID, keyword, reverse) ==
    /\ Len(lookups) < MaxLookups
    /\ ListAgenciesStep(
            CacheKey(<<>>, <<jurisdictionID, keyword, reverse>>),
            list_agencies_body(lookup_cache.get_jurisdictions,
                               agency_url(jurisdictionID, keyword),
                               content, keyword, reverse)
                @@ [jurisdictionID |-> jurisdictionID, keyword |-> keyword,
                    reverse |-> reverse],
            Memoized(lookup_cache.list_agencies,
                     CacheKey(<<>>, <<jurisdictionID, keyword, reverse>>),
                     list_agencies_body(lookup_cache.get_jurisdictions,
                                        agency_url(jurisdictionID, keyword),
                                        content, keyword, reverse)))
    /\ UNCHANGED <<content, values, memo, reading>>

\* the selectors the agency lookups are called with
AgencyJurisdictionChoices == {None, PyInt(AgencyJurisdiction)}
AgencyKeywordChoices == {None, PyStr("Education")}
ReverseChoices == {PyBool(FALSE), PyBool(TRUE)}

\* a fresh process, the server serving any content
LookupsInit ==
    /\ content \in Contents
    /\ lookup_cache = NoCaches
    /\ lookups = <<>>

LookupsStart == MemoInit /\ ValuesInit /\ LookupsInit /\ NoReading

LookupsNext ==
    \/ \E r \in ReverseChoices : ListSeries(r)
    \/ \E j \in AgencyJurisdictionChoices, k \in AgencyKeywordChoices : GetAgencies(j, k)
    \/ \E j \in AgencyJurisdictionChoices, k \in AgencyKeywordChoices, r \in ReverseChoices :
            ListAgencies(j, k, r)

\* one process calling the lookup functions
SpecLookups == LookupsStart /\ [][LookupsNext]_vars

(* ----------------------------- reading_time ---------------------------- *)

\* A float: binary digits, most significant first, of which the first
\* `point` stand before the binary point (point may be negative or exceed
\* the number of digits).  The digits start with 1 and do not end in 0;
\* zero has no digits.
Float(bits, point) == [bits |-> bits, point |-> point]
Zero == Float(<<>>, 0)

\* the binary digits of a natural number
RECURSIVE BitsOf(_)
BitsOf(n) == IF n = 0 THEN <<>> ELSE Append(BitsOf(n \div 2), n % 2)

\* the natural number of binary digits
RECURSIVE ValueOf(_)
ValueOf(bits) ==
    IF bits = <<>> THEN 0
    ELSE 2 * ValueOf(SubSeq(bits, 1, Len(bits) - 1)) + bits[Len(bits)]

RECURSIVE Pow2(_)
Pow2(n) == IF n = 0 THEN 1 ELSE 2 * Pow2(n - 1)

\* does a 1 occur among the digits
HasOne(bits) == \E i \in 1..Len(bits) : bits[i] = 1
\* the places of the first and of the last 1
FirstOne(bits) ==
    CHOOSE i \in 1..Len(bits) : bits[i] = 1 /\ \A j \in 1..(i - 1) : bits[j] = 0
LastOne(bits) ==
    CHOOSE i \in 1..Len(bits) :
        bits[i] = 1 /\ \A j \in (i + 1)..Len(bits) : bits[j] = 0

\* the same value with no leading and no trailing zero digit
Normal(x) ==
    IF ~HasOne(x.bits) THEN Zero
    ELSE Float(SubSeq(x.bits, FirstOne(x.bits), LastOne(x.bits)),
               x.point - (FirstOne(x.bits) - 1))

\* binary digits plus one in the last place; a carry out of the first
\* place adds a digit in front
LastZero(bits) ==
    CHOOSE i \in 1..Len(bits) :
        bits[i] = 0 /\ \A j \in (i + 1)..Len(bits) : bits[j] = 1
Increment(bits) ==
    IF \A i \in 1..Len(bits) : bits[i] = 1
    THEN <<1>> \o [i \in 1..Len(bits) |-> 0]
    ELSE [i \in 1..Len(bits) |->
            IF i < LastZero(bits) THEN bits[i]
            ELSE IF i = LastZero(bits) THEN 1 ELSE 0]

\* round to nearest, ties to even, at Precision digits: the digits start
\* with 1; sticky tells that nonzero digits follow them
RoundUp(bits, sticky) ==
    /\ bits[Precision + 1] = 1
    /\ \/ sticky
       \/ HasOne(SubSeq(bits, Precision + 2, Len(bits)))
       \/ bits[Precision] = 1
Kept53(bits, sticky) ==
    IF RoundUp(bits, sticky)
    THEN Increment(SubSeq(bits, 1, Precision))
    ELSE SubSeq(bits, 1, Precision)
RoundNormal(x, sticky) ==
    IF Len(x.bits) <= Precision THEN x
    ELSE Normal(Float(Kept53(x.bits, sticky),
                      x.point + Len(Kept53(x.bits, sticky)) - Precision))
Round(x, sticky) == RoundNormal(Normal(x), sticky)

\* how many zeros follow the binary point of r / d, 0 < r < d
RECURSIVE LeadingZeros(_, _)
LeadingZeros(r, d) == IF 2 * r >= d THEN 0 ELSE 1 + LeadingZeros(2 * r, d)

\* the two digits q (0..3) put before the digits of rest
DivPut(q, rest) == [bits |-> <<q \div 2, q % 2>> \o rest.bits, rem |-> rest.rem]

\* the first 2 * pairs binary digits of r / d after the point, r < d, and
\* the remainder left
RECURSIVE DivPairs(_, _, _)
DivPairs(r, d, pairs) ==
    IF pairs = 0 THEN [bits |-> <<>>, rem |-> r]
    ELSE DivPut((4 * r) \div d, DivPairs((4 * r) % d, d, pairs - 1))

\* enough pairs of digits for the precision, the rounding digit included
Pairs53 == (Precision + 3) \div 2

\* n / d for naturals n and d, d > 0, rounded
DivideFrom(whole, point, frac) ==
    Round(Float(whole \o frac.bits, point), frac.rem # 0)
Divide(n, d) ==
    IF n \div d > 0
    THEN DivideFrom(BitsOf(n \div d), Len(BitsOf(n \div d)),
                    DivPairs(n % d, d, Pairs53))
    ELSE IF n = 0 THEN Zero
    ELSE DivideFrom(<<>>, 0 - LeadingZeros(n, d),
                    DivPairs(n * Pow2(LeadingZeros(n, d)), d, Pairs53))

\* eight binary digits as a number, and back
Byte(v) == [i \in 1..8 |-> (v \div Pow2(8 - i)) % 2]
\* the digits in groups of eight from the last one, zeros put in front
Padded(bits) == [i \in 1..((8 - (Len(bits) % 8)) % 8) |-> 0] \o bits
Bytes(bits) ==
    [i \in 1..(Len(Padded(bits)) \div 8) |->
        ValueOf(SubSeq(Padded(bits), 8 * i - 7, 8 * i))]
Unbytes(bytes) ==
    [i \in 1..(8 * Len(bytes)) |-> Byte(bytes[((i - 1) \div 8) + 1])[((i - 1) % 8) + 1]]

\* the bytes of bytes * c, carry being what the lower bytes carried
RECURSIVE MulCarry(_, _, _)
MulCarry(bytes, c, carry) ==
    IF bytes = <<>> THEN (IF carry = 0 THEN <<>> ELSE <<carry>>)
    ELSE Append(MulCarry(SubSeq(bytes, 1, Len(bytes) - 1), c,
                         (bytes[Len(bytes)] * c + carry) \div 256),
                (bytes[Len(bytes)] * c + carry) % 256)

\* x * c for a natural c < 256, rounded
TimesOf(x, product) ==
    Round(Float(product, x.point + Len(product) - Len(x.bits)), FALSE)
Times(x, c) == TimesOf(x, Unbytes(MulCarry(Bytes(x.bits), c, 0)))

\* int(x)
IntOf(x) ==
    IF x.point <= 0 THEN 0
    ELSE IF x.point >= Len(x.bits)
    THEN ValueOf(x.bits) * Pow2(x.point - Len(x.bits))
    ELSE ValueOf(SubSeq(x.bits, 1, x.point))

\* x - int(x), which is exact
FracOf(x) ==
    IF x.point <= 0 THEN x
    ELSE IF x.point >= Len(x.bits) THEN Zero
    ELSE Normal(Float(SubSeq(x.bits, x.point + 1, Len(x.bits)), 0))

\* the defaults of reading_time
workday == 8
workweek == 5
workyear == 50

\* text pieces
Word(s) == Tok(0, s)
Number(n) == Tok(n, "")

\* text.replace(unit, unit + 's')
Replaced(t, unit) ==
    [i \in 1..Len(t) |-> IF t[i] = Word(unit) THEN Word(unit \o "s") ELSE t[i]]

\* text += str(count) + ' unit, ', then the plural when count > 1
WithUnit(t, count, unit, tail) ==
    IF count > 1
    THEN Replaced(t \o <<Number(count), Word(" "), Word(unit)>> \o tail, unit)
    ELSE t \o <<Number(count), Word(" "), Word(unit)>> \o tail

\* text.strip(', ')
Stripped == {Word(","), Word(" ")}
RECURSIVE StripLeft(_)
StripLeft(t) ==
    IF t # <<>> /\ t[1] \in Stripped THEN StripLeft(Tail(t)) ELSE t
RECURSIVE StripRight(_)
StripRight(t) ==
    IF t # <<>> /\ t[Len(t)] \in Stripped
    THEN StripRight(SubSeq(t, 1, Len(t) - 1))
    ELSE t
Strip(t) == StripRight(StripLeft(t))

Separator == <<Word(","), Word(" ")>>
LessThanAMinute == <<Word("Less than a minute")>>

\* the text after each if of reading_time, given the five int() values
YearsText(years) ==
    IF years # 0 THEN WithUnit(<<>>, years, "year", Separator) ELSE <<>>
WeeksText(t, weeks) ==
    IF weeks # 0 THEN WithUnit(t, weeks, "week", Separator) ELSE t
DaysText(t, days) ==
    IF days # 0 THEN WithUnit(t, days, "day", Separator) ELSE t
HoursText(t, hours, years) ==
    IF hours # 0 /\ years = 0 THEN WithUnit(t, hours, "hour", Separator) ELSE t
MinutesText(t, minutes, years, weeks) ==
    IF minutes # 0 /\ years = 0 /\ weeks = 0
    THEN WithUnit(t, minutes, "minute", <<>>)
    ELSE t
TextOf(years, weeks, days, hours, minutes) ==
    MinutesText(HoursText(DaysText(WeeksText(YearsText(years), weeks), days),
                          hours, years),
                minutes, years, weeks)
Returned(t) == IF t # <<>> THEN Strip(t) ELSE LessThanAMinute

\* the word counts reading_time is called with: multiples of the scales
WordScales == {1, 100, 300, 144000, 720000, 36000000}
WordCounts == {k * s : k \in 0..MaxCount, s \in WordScales}

\* the locals of reading_time before its first assignment
NoFloats ==
    [line |-> "idle", years |-> Zero, weeks |-> Zero, days |-> Zero,
     hours |-> Zero, minutes |-> Zero]

\* reading_time(n) is called: text = ''
ReadingTime(n) ==
    /\ floats.line \in {"idle", "return"}
    /\ words' = n
    /\ text' = <<>>
    /\ floats' = [NoFloats EXCEPT !.line = "years"]
    /\ UNCHANGED <<values, memo, listing>>

\* years = words / 36000000
SetYears ==
    /\ floats.line = "years"
    /\ floats' = [floats EXCEPT !.years = Divide(words, WordsPerYear),
                                !.line = "weeks"]
    /\ UNCHANGED <<words, text, values, memo, listing>>

\* weeks = (years - int(years)) * workyear
SetWeeks ==
    /\ floats.line = "weeks"
    /\ floats' = [floats EXCEPT !.weeks = Times(FracOf(floats.years), workyear),
                                !.line = "days"]
    /\ UNCHANGED <<words, text, values, memo, listing>>

\* days = (weeks - int(weeks)) * workweek
SetDays ==
    /\ floats.line = "days"
    /\ floats' = [floats EXCEPT !.days = Times(FracOf(floats.weeks), workweek),
                                !.line = "hours"]
    /\ UNCHANGED <<words, text, values, memo, listing>>

\* hours = (days - int(days)) * workday
SetHours ==
    /\ floats.line = "hours"
    /\ floats' = [floats EXCEPT !.hours = Times(FracOf(floats.days), workday),
                                !.line = "minutes"]
    /\ UNCHANGED <<words, text, values, memo, listing>>

\* minutes = (hours - int(hours)) * 60
SetMinutes ==
    /\ floats.line = "minutes"
    /\ floats' = [floats EXCEPT !.minutes = Times(FracOf(floats.hours), 60),
                                !.line = "text"]
    /\ UNCHANGED <<words, text, values, memo, listing>>

\* the ifs that build the text, and the return
SetText ==
    /\ floats.line = "text"
    /\ text' = Returned(TextOf(IntOf(floats.years), IntOf(floats.weeks),
                               IntOf(floats.days), IntOf(floats.hours),
                               IntOf(floats.minutes)))
    /\ floats' = [floats EXCEPT !.line = "return"]
    /\ UNCHANGED <<words, values, memo, listing>>

ReadingStart == MemoInit /\ ValuesInit /\ NoLookups /\ NoReading

ReadingNext ==
    \/ \E n \in WordCounts : ReadingTime(n)
    \/ SetYears
    \/ SetWeeks
    \/ SetDays
    \/ SetHours
    \/ SetMinutes
    \/ SetText

\* reading_time called on one word count after another
SpecReading == ReadingStart /\ [][ReadingNext]_vars

(* -------------------------------- claims ------------------------------- *)

IsValues(r) == r.kind = "values"
\* the values requests of the current call, in order
ValuesRequests == SelectSeq(requests, IsValues)
AllRows == \A i \in 1..Len(responses) : responses[i].kind = "rows"
\* the keys of a parameter list, in order
Keys(params) == [i \in 1..Len(params) |-> params[i].k]
\* the columns of a response with the prefix stripped
CleanedColumns == << <<"series_value">>, <<"name">>, <<"year">> >>
\* the pages fetched, as the table get_values hands over
FetchedTable ==
    Table(CleanedColumns,
          [i \in 1..Len(responses) |->
              [page |-> IF Truthy(args.page) THEN args.page.n ELSE i,
               n |-> responses[i].n, years |-> responses[i].years]])

\* C1: with no page passed and every response a row list, get_values stops
\* at the first page of fewer than 5000 rows, having sent one values request
\* per page in page order (the first without a page parameter, then page=2,
\* 3, ..., k), and the table it returns is the pages concatenated in that
\* order, 5000*(k-1)+N rows.
C1_AutomaticPagination ==
    (pc = "done" /\ args.page = None /\ responses # <<>> /\ AllRows) =>
        LET k == Len(responses)
            vr == ValuesRequests
        IN  /\ \A i \in 1..(k - 1) : responses[i].n = PageCeiling
            /\ responses[k].n < PageCeiling
            /\ Len(vr) = k
            /\ "page" \notin {url_call.params[i].k : i \in 1..Len(url_call.params)}
            /\ \A i \in 1..k :
                 /\ vr[i].path = url_call.path
                 /\ vr[i].params =
                      IF i = 1 THEN url_call.params
                      ELSE Append(url_call.params, Param("page", <<Tok(i, "")>>))
            /\ result.kind = "table" =>
                 /\ result.table = FetchedTable
                 /\ Rows(result.table) = PageCeiling * (k - 1) + responses[k].n

\* two full pages then a short one were fetched and returned as one table
C1_Witness ==
    /\ pc = "done"
    /\ args.page = None
    /\ Len(responses) = 3
    /\ AllRows
    /\ result.kind = "table"
    /\ Rows(result.table) = 2 * PageCeiling + 7

\* C2: with an explicit page, 0 included, get_values sends at most one
\* values request, and that request ends in page=<page>.
C2_ExplicitPage ==
    (args.page # None /\ ValuesRequests # <<>>) =>
        LET vr == ValuesRequests
        IN  /\ Len(vr) = 1
            /\ vr[1].params # <<>>
            /\ vr[1].params[Len(vr[1].params)] = Param("page", Fmt(args.page))

\* C3: the step that hands the fetched table over: a path string gets the
\* prefix-stripped table of all fetched pages written to it and nothing
\* returned; a truthy non-string prints the outpath message, writes no file
\* and returns nothing; a falsy value (False, None, the empty string) gets
\* that same table returned and no file written.
C3_DownloadMode ==
    [][(pc = "deliver" /\ pc' = "done") =>
          LET dl == args.download
          IN  IF dl.t = "str"
              THEN /\ DOMAIN files' = DOMAIN files \cup {dl.s}
                   /\ files'[dl.s] = FetchedTable
                   /\ \A f \in DOMAIN files \ {dl.s} : files'[f] = files[f]
                   /\ result' = ReturnNone
                   /\ stdout' = stdout
              ELSE IF dl.t \in {"none", "estr"} \/ (dl.t = "bool" /\ dl.n = 0)
              THEN /\ files' = files
                   /\ result' = ReturnTable(FetchedTable)
                   /\ stdout' = stdout
              ELSE /\ files' = files
                   /\ result' = ReturnNone
                   /\ stdout' = Append(stdout, Line(MsgOutpath))]_vars

\* a paginated table was written to the path and nothing returned
C3_Witness ==
    /\ pc = "done"
    /\ args.download = PyStr("out.csv")
    /\ "out.csv" \in DOMAIN files
    /\ Len(responses) = 2
    /\ files["out.csv"] = FetchedTable
    /\ result = ReturnNone

Printed(msg) == \E i \in 1..Len(stdout) : stdout[i].msg = msg
Sent(kind) == \E i \in 1..Len(requests) : requests[i].kind = kind
Live == pc # "idle" /\ ~Truthy(args.date)

\* C4: get_values(series=None, jurisdiction=J, year=Y) with J and Y valid
\* prints the series prompt and returns nothing; get_values(series=S,
\* jurisdiction=None, year=Y) with S and Y valid prints the jurisdiction
\* prompt and returns nothing; neither sends a values request.
C4_MissingRequired ==
    (pc = "done" /\ Live /\ args.year.t = "int" /\ args.year.n \in srvYears) =>
        /\ (args.series = None /\ args.jurisdiction = PyInt(58)) =>
              /\ result = ReturnNone
              /\ Printed(MsgSeries)
              /\ ValuesRequests = <<>>
        /\ (args.series = PyInt(1) /\ args.jurisdiction = None) =>
              /\ result = ReturnNone
              /\ Printed(MsgJurisdiction)
              /\ ValuesRequests = <<>>

Remediations == {MsgSeries, MsgJurisdiction, MsgJurisdictionConsider, MsgDate, MsgNoData}

\* C5: when some of series, jurisdiction and year are missing, the call
\* never raises, returns nothing, and the only remediation message printed
\* is that of the earliest missing one: series, else jurisdiction, else year.
C5_ValidationOrder ==
    (/\ pc = "done" /\ Live
     /\ args.series \in {None, PyInt(1)}
     /\ args.jurisdiction \in {None, PyInt(58)}
     /\ args.year = None \/ (args.year.t = "int" /\ args.year.n \in srvYears)
     /\ None \in {args.series, args.jurisdiction, args.year}) =>
        LET expected ==
              IF args.series = None THEN {MsgSeries}
              ELSE IF args.jurisdiction = None
              THEN {MsgJurisdiction, MsgJurisdictionConsider}
              ELSE {MsgDate}
        IN  /\ result = ReturnNone
            /\ \E m \in expected : Printed(m)
            /\ \A m \in Remediations \ expected : ~Printed(m)

\* the series is an id discovery does not list
SeriesUnlisted ==
    args.series.t = "int" /\ \A i \in 1..Len(SeriesIds) : SeriesIds[i] # args.series.n
\* the jurisdiction is an id the server does not know
JurisdictionUnknown == args.jurisdiction.t = "int" /\ args.jurisdiction.n \notin KnownIds
Unresolved ==
    \/ args.series = None
    \/ args.jurisdiction = None
    \/ SeriesUnlisted
    \/ JurisdictionUnknown

PlainYearList ==
    /\ Live
    /\ args.year.t = "list"
    /\ [args EXCEPT !.year = PyInt(BaseYear), !.dateIsRange = PyBool(TRUE)] = Good
IsRange ==
    /\ Truthy(args.dateIsRange)
    /\ Len(args.year.l) = 2
    /\ args.year.l[1].n <= args.year.l[2].n
YearsReturned ==
    UNION {result.table.blocks[i].years : i \in 1..Len(result.table.blocks)}

\* C7: for Y1 <= Y2, year=[Y1, Y2] with dateIsRange sends year=Y1,...,Y2 and
\* returns the rows of exactly the years of [Y1, Y2] that a single-year call
\* returns rows for, also when discovery has rows for interior years only;
\* any other year list is sent comma-joined unchanged.
C7_YearRange ==
    (pc = "done" /\ PlainYearList /\ AllRows) =>
        IF IsRange
        THEN LET span == (args.year.l[1].n)..(args.year.l[2].n)
             IN  IF span \cap srvYears = {}
                 THEN result = ReturnNone
                 ELSE /\ ValuesRequests # <<>>
                      /\ ParamValue(ValuesRequests[1].params, "year") =
                            Join(IntRange(args.year.l[1].n, args.year.l[2].n))
                      /\ result.kind = "table"
                      /\ YearsReturned = span \cap srvYears
        ELSE ValuesRequests # <<>> =>
                ParamValue(ValuesRequests[1].params, "year") = Join(args.year.l)

\* the order the specification fixes for the query parameters
FixedOrder ==
    <<"series", "jurisdiction", "agency", "cluster", "label", "labelLevel",
      "year", "filteredOnly", "documenttype", "country", "version", "page">>
\* position of a key in FixedOrder
OrderOf(k) == CHOOSE i \in 1..Len(FixedOrder) : FixedOrder[i] = k
InFixedOrder(ks) ==
    /\ \A i \in 1..Len(ks) : \E j \in 1..Len(FixedOrder) : FixedOrder[j] = ks[i]
    /\ \A i \in 1..Len(ks), j \in 1..Len(ks) :
          i < j => OrderOf(ks[i]) < OrderOf(ks[j])
Has(ks, k) == \E i \in 1..Len(ks) : ks[i] = k
\* the text a supplied value has in the URL: a list comma-joined
Joined(x) == IF x.t = "list" THEN Join(x.l) ELSE <<StrTok(x)>>
\* the label and its level as the caller gave them, the deprecated
\* spellings taking precedence
GivenLabel == IF Truthy(args.industry) THEN args.industry ELSE args.label
GivenLevel == IF Truthy(args.industryLevel) THEN args.industryLevel ELSE args.labellevel
ListOrTruthy(x) == x.t = "list" \/ Truthy(x)
\* the ids of the NAICS codes given
GivenLabelIds ==
    IF GivenLabel.t = "list"
    THEN PyList([i \in 1..Len(GivenLabel.l) |-> PyInt(LabelIds[GivenLabel.l[i].n])])
    ELSE PyInt(LabelIds[GivenLabel.n])
\* the year as it is sent: a two-element list with dateIsRange expanded
GivenYear ==
    IF args.year.t = "list" /\ Truthy(args.dateIsRange) /\ Len(args.year.l) = 2
    THEN PyList(IntRange(args.year.l[1].n, args.year.l[2].n))
    ELSE args.year

Written(k) ==
    CASE k \in {"series", "jurisdiction", "year"} -> TRUE
      [] k = "agency" -> ListOrTruthy(args.agency)
      [] k = "cluster" -> ListOrTruthy(args.cluster)
      [] k = "label" -> ListOrTruthy(GivenLabel)
      [] k = "labelLevel" -> Truthy(GivenLevel)
      [] k = "filteredOnly" -> Truthy(GivenLabel) /\ ~Truthy(args.filtered)
      [] k = "documenttype" -> Truthy(args.documentType)
      [] k = "page" -> Truthy(args.page)
      [] OTHER -> FALSE
\* the text the code writes for key k
WrittenValue(k) ==
    CASE k = "series" -> Joined(args.series)
      [] k = "jurisdiction" -> Joined(jurisdiction)
      [] k = "agency" -> Joined(args.agency)
      [] k = "cluster" -> Joined(args.cluster)
      [] k = "label" ->
            IF args.labelsource = PyStr("NAICS") /\ GivenLabel # PyList(<<>>)
            THEN Joined(GivenLabelIds) ELSE Joined(GivenLabel)
      [] k = "labelLevel" -> Joined(GivenLevel)
      [] k = "year" -> Joined(GivenYear)
      [] k = "filteredOnly" -> <<Tok(0, "false")>>
      [] k = "documenttype" -> Joined(args.documentType)
      [] OTHER -> Joined(args.page)

C9_ErrorEnvelope ==
    (/\ pc = "done"
     /\ responses # <<>>
     /\ responses[Len(responses)].kind = "error"
     /\ responses[Len(responses)].field \in {"message", "errorMessage"}) =>
        /\ result = ReturnNone
        /\ Printed(MsgError)

\* the jurisdiction is, or contains, a name the lookup map does not have
IsAbsentName(x) == x.t = "str" /\ x.s # "" /\ x.s \notin DOMAIN JurisdictionIds
HasAbsentName(x) ==
    IF x.t = "list" THEN \E i \in 1..Len(x.l) : IsAbsentName(x.l[i])
    ELSE IsAbsentName(x)

\* C10: a jurisdiction name absent from the lookup map ends the call
\* without a values request and without an exception: it returns nothing.
C10_NameResolutionFailure ==
    (pc = "done" /\ Live /\ HasAbsentName(args.jurisdiction)) =>
        /\ result = ReturnNone
        /\ ValuesRequests = <<>>

\* the numbers a series or year argument asks for
Asked(x) == IF x.t = "list" THEN {x.l[i].n : i \in 1..Len(x.l)} ELSE {x.n}
\* series and year are numbers or lists of numbers, and the jurisdiction is
\* one discovery answers for
WellFormedRequest ==
    /\ Live
    /\ pc \notin {"resolve", "endpoint"}
    /\ args.series.t \in {"int", "float", "list"}
    /\ args.year.t \in {"int", "list"}
    /\ jurisdiction.t \in {"int", "list"}
    /\ ServerKnows(Fmt(jurisdiction))
\* the discovery rows that match the request, as (year, position of the
\* series) pairs
Matching ==
    {yi \in (Asked(args.year) \cap srvYears) \X (1..Len(SeriesIds)) :
        SeriesIds[yi[2]] \in Asked(args.series)}
\* the first of them: discovery lists its rows by year, then by series
FirstMatching ==
    CHOOSE yi \in Matching :
        \A other \in Matching :
            yi[1] < other[1] \/ (yi[1] = other[1] /\ yi[2] <= other[2])
FirstRow == DatafinderRow(SeriesIds[FirstMatching[2]], FirstMatching[1])
NoDataOutcome ==
    /\ pc = "done"
    /\ result = ReturnNone
    /\ Printed(MsgNoData)
    /\ Printed(ShownDatafinder)
    /\ ValuesRequests = <<>>

\* C11, as stated: the endpoint is taken from the first discovery row whose
\* series and year match: its summary path with summary set, its
\* document-level path with summary unset, or its label path when the
\* document-level path is empty; when no row matches get_values prints the
\* no-data message with the discovery table, returns nothing and sends no
\* values request.
C11_EndpointSelection ==
    WellFormedRequest =>
        IF Matching = {} THEN NoDataOutcome
        ELSE pc = "build" =>
                url_call.path =
                    IF Truthy(args.summary) THEN FirstRow.summary_endpoints
                    ELSE IF FirstRow.document_endpoints # <<>>
                    THEN FirstRow.document_endpoints
                    ELSE FirstRow.label_endpoints

\* the line of the verbose echo, when there is one
EchoLines == SelectSeq(stdout, LAMBDA l : l.msg = MsgApiCall)

\* C16: with verbose set, on every path that sends the values request,
\* whether the response is rows or an error, get_values has printed the
\* request URL once, and the URL printed is the URL requested, the page
\* cursor included.
C16_VerboseEcho ==
    (Live /\ Truthy(args.verbose) /\ ValuesRequests # <<>>) =>
        /\ Len(EchoLines) = 1
        /\ EchoLines[1].url = Url(ValuesRequests[1].path, ValuesRequests[1].params)

\* the jurisdiction argument is made of numeric ids and of names the
\* lookup map has
IsKnownName(x) == x.t = "str" /\ x.s \in DOMAIN JurisdictionIds
IsId(x) == x.t = "int"
KnownNamesAndIds ==
    IF args.jurisdiction.t = "list"
    THEN /\ args.jurisdiction.l # <<>>
         /\ \A i \in 1..Len(args.jurisdiction.l) :
               IsKnownName(args.jurisdiction.l[i]) \/ IsId(args.jurisdiction.l[i])
    ELSE IsKnownName(args.jurisdiction) \/ IsId(args.jurisdiction)
\* the first element of a list, the value itself otherwise
Leading(x) == IF x.t = "list" THEN x.l[1] ELSE x
\* the identifier of an element: a name's id from the map, an id itself
IdOf(x) == IF x.t = "str" THEN PyInt(JurisdictionIds[x.s]) ELSE x
Identifiers(x) ==
    IF x.t = "list" THEN PyList([i \in 1..Len(x.l) |-> IdOf(x.l[i])]) ELSE IdOf(x)

\* C19: a jurisdiction is treated as a name exactly when it, or the first
\* element of a list, has a letter: then every element is replaced by its
\* identifier and the URL carries identifiers only; otherwise the value
\* passes through unchanged and no lookup request is made; so for every
\* list, mixed ones included.
C19_NameDetection ==
    (Live /\ pc \notin {"resolve"} /\ KnownNamesAndIds) =>
        /\ (pc = "done" /\ result.kind = "raise") => Sent("datafinder")
        /\ IF Leading(args.jurisdiction).t = "str"
           THEN jurisdiction = Identifiers(args.jurisdiction)
           ELSE /\ jurisdiction = args.jurisdiction
                /\ requests # <<>> => requests[1].kind # "jurisdictions"
        /\ ValuesRequests # <<>> =>
              ParamValue(ValuesRequests[1].params, "jurisdiction") =
                  Joined(Identifiers(args.jurisdiction))

\* the key of the get_endpoint call of the current get_values call
EndpointKey ==
    CacheKey(<<args.series, jurisdiction, args.year, args.documentType,
               args.summary>>, <<>>)
\* the jurisdiction is an id discovery answers with an error envelope for
UnknownJurisdiction ==
    /\ args.series.t = "int"
    /\ args.year.t = "int"
    /\ jurisdiction.t = "int"
    /\ jurisdiction.n \notin KnownIds
\* how many discovery requests the step sends
NewDatafinderRequests ==
    Len(SelectSeq(requests', LAMBDA r : r.kind = "datafinder"))
    - Len(SelectSeq(requests, LAMBDA r : r.kind = "datafinder"))

\* C20: in the step that calls get_endpoint: when get_endpoint raises
\* IndexError (no discovery row matches) its cache is left as it was; when
\* it returns, the value is stored under the call's key, the absent value
\* of a malformed discovery response included; and a stored outcome is
\* replayed: get_endpoint is not run again, so it sends no discovery request
\* of its own (the one request left is that of get_values printing the
\* table).
C20_CacheOnFailure ==
    [][pc = "endpoint" =>
          /\ (WellFormedRequest' /\ Matching = {}) => cacheEP' = cacheEP
          /\ (WellFormedRequest' /\ Matching # {}) =>
                /\ EndpointKey \in DOMAIN cacheEP'
                /\ cacheEP'[EndpointKey].found
                /\ EndpointKey \in DOMAIN cacheEP => NewDatafinderRequests = 0
          /\ UnknownJurisdiction =>
                /\ EndpointKey \in DOMAIN cacheEP'
                /\ cacheEP'[EndpointKey] = NoEndpoint
                /\ NewDatafinderRequests =
                      IF EndpointKey \in DOMAIN cacheEP THEN 1 ELSE 2
          /\ EndpointKey \in DOMAIN cacheEP => cacheEP' = cacheEP]_vars

\* a repeated call found the absent endpoint stored and did not run
\* get_endpoint again
C20_Witness ==
    /\ pc = "done"
    /\ ncalls = 2
    /\ UnknownJurisdiction
    /\ EndpointKey \in DOMAIN cacheEP
    /\ cacheEP[EndpointKey] = NoEndpoint
    /\ Len(SelectSeq(requests, LAMBDA r : r.kind = "datafinder")) = 1

\* the calls so far were made one after another
Sequential == ~history.overlapped

\* C12: while the calls come one after another, the wrapped function has
\* returned at most once for each key; a call made when its key was stored
\* returned the stored value without running the function; and an entry,
\* once stored, is still there with the value first stored.
C12_Memoization ==
    Sequential =>
        /\ \A k \in MemoKeys : history.returned[k] <= 1
        /\ \A t \in Threads :
              (thread[t].pc = "done" /\ thread[t].was) =>
                 /\ ~thread[t].ran
                 /\ thread[t].ret =
                       [kind |-> "value", value |-> self_cache[thread[t].key]]
        /\ \A k \in MemoKeys :
              history.firstStore[k] # Unset =>
                 /\ k \in DOMAIN self_cache
                 /\ self_cache[k] = history.firstStore[k]

\* a third call, after a raising one and a storing one, was served from
\* the cache
C12_Witness ==
    /\ Sequential
    /\ history.calls = 3
    /\ \E t \in Threads :
          /\ thread[t].pc = "done"
          /\ thread[t].was
          /\ thread[t].ret.kind = "value"
          /\ history.returned[thread[t].key] = 1

\* C14: under every interleaving of two threads: a call that returns gives
\* a value some run of the function for its key produced; the cache holds,
\* for each key stored, one entry with the value last written for it, which
\* is the value a single run produced when all runs for the key gave the
\* same answer; and a key stored is never lost to a store for another key.
C14_BenignRace ==
    /\ \A t \in Threads :
          (thread[t].pc = "done" /\ thread[t].ret.kind = "value") =>
              thread[t].ret.value \in history.answers[thread[t].key]
    /\ DOMAIN self_cache = {k \in MemoKeys : history.lastStore[k] # Unset}
    /\ \A k \in DOMAIN self_cache :
          /\ self_cache[k] = history.lastStore[k]
          /\ Cardinality(history.answers[k]) = 1 =>
                history.answers[k] = {self_cache[k]}

\* both threads ran the function for the same key, with different answers
C14_Witness ==
    /\ history.overlapped
    /\ \A t \in Threads : thread[t].pc = "done" /\ thread[t].ran
    /\ thread[1].key = thread[2].key
    /\ thread[1].ret.kind = "value"
    /\ thread[2].ret.kind = "value"
    /\ thread[1].ret.value # thread[2].ret.value
    /\ history.returned[thread[1].key] = 2

\* the calls made so far that returned a dictionary
Mappings == {i \in 1..Len(lookups) : lookups[i].value.kind = "dict"}

\* two calls with identical arguments
SameCall(a, b) ==
    /\ a.fn = b.fn
    /\ a.jurisdictionID = b.jurisdictionID
    /\ a.keyword = b.keyword
    /\ a.reverse = b.reverse

\* a forward call and the reverse call with otherwise identical arguments
Mirrored(a, b) ==
    /\ a.fn = b.fn
    /\ a.jurisdictionID = b.jurisdictionID
    /\ a.keyword = b.keyword
    /\ ~Truthy(a.reverse)
    /\ Truthy(b.reverse)

\* the keys of a returned dictionary ascend, and are display names for a
\* forward call and identifiers for a reverse call
KeysAscend(c) ==
    /\ \A k \in 1..(Len(c.value.items) - 1) :
            KeyLess(c.value.items[k][1], c.value.items[k + 1][1])
    /\ \A k \in 1..Len(c.value.items) :
            /\ c.value.items[k][1][1] \in (IF Truthy(c.reverse) THEN Ids ELSE Names)
            /\ c.value.items[k][2][1] \in (IF Truthy(c.reverse) THEN Names ELSE Ids)

\* the items of b are the items of a, key and value exchanged
Swapped(a, b) ==
    {<<a.value.items[k][2], a.value.items[k][1]>> : k \in 1..Len(a.value.items)}
        = {b.value.items[k] : k \in 1..Len(b.value.items)}

\* the rows a call's comprehension reads pair names and identifiers one to
\* one: no name comes with two identifiers, no identifier with two names
ReadRows(c) == Kept(content, c.fn = "list_agencies")
OneToOne(rows) ==
    \A p, q \in 1..Len(rows) :
        (rows[p].name = rows[q].name) <=> (rows[p].id = rows[q].id)

\* C13 (as stated): a list_* function called twice with identical arguments
\* returns identical mappings; the keys of a mapping ascend, display names
\* when reverse is unset and identifiers when it is set; and the reverse
\* mapping is the forward mapping with keys and values swapped.
C13_LookupOrdering ==
    /\ \A i, j \in 1..Len(lookups) :
            SameCall(lookups[i], lookups[j]) => lookups[i].value = lookups[j].value
    /\ \A i \in Mappings : KeysAscend(lookups[i])
    /\ \A i, j \in Mappings :
            Mirrored(lookups[i], lookups[j]) => Swapped(lookups[i], lookups[j])

\* C13 (amended): as above, the reverse mapping being the forward mapping
\* swapped whenever the served rows pair names and identifiers one to one.
C13_LookupOrderingOneToOne ==
    /\ \A i, j \in 1..Len(lookups) :
            SameCall(lookups[i], lookups[j]) => lookups[i].value = lookups[j].value
    /\ \A i \in Mappings : KeysAscend(lookups[i])
    /\ \A i, j \in Mappings :
            (Mirrored(lookups[i], lookups[j]) /\ OneToOne(ReadRows(lookups[i])))
                => Swapped(lookups[i], lookups[j])

\* a forward and a reverse call have returned two-entry mappings of rows
\* paired one to one
C13_Witness ==
    /\ Len(lookups) = 2
    /\ Mappings = {1, 2}
    /\ Mirrored(lookups[1], lookups[2])
    /\ OneToOne(ReadRows(lookups[1]))
    /\ Len(lookups[1].value.items) = 2
    /\ Len(lookups[2].value.items) = 2

\* a call of get_agencies or list_agencies with neither selector
NoSelector(c) ==
    /\ c.fn \in {"get_agencies", "list_agencies"}
    /\ ~Truthy(c.jurisdictionID)
    /\ ~Truthy(c.keyword)

\* a call of get_agencies or list_agencies with both selectors
BothSelectors(c) ==
    /\ c.fn \in {"get_agencies", "list_agencies"}
    /\ Truthy(c.jurisdictionID)
    /\ Truthy(c.keyword)

\* C15: every call of get_agencies or list_agencies with neither
\* jurisdictionID nor keyword, a repeated call included, prints the
\* 'Must include either "jurisdictionID" or "keyword."' message, returns
\* nothing and sends no request; with both selectors the keyword endpoint
\* is the one requested.
C15_AgencyWithoutSelector ==
    \A i \in 1..Len(lookups) :
        /\ NoSelector(lookups[i]) =>
                /\ lookups[i].out = <<Line(MustInclude)>>
                /\ lookups[i].value = NoneValue
                /\ lookups[i].reqs = <<>>
        /\ BothSelectors(lookups[i]) =>
                /\ \A r \in 1..Len(lookups[i].reqs) :
                        lookups[i].reqs[r].kind # "agencies"
                /\ ~lookups[i].hit =>
                        /\ lookups[i].reqs # <<>>
                        /\ lookups[i].reqs[1].kind = "agencies-keyword"

\* C17: when the get_values call inside get_reading_time yields nothing,
\* get_reading_time returns nothing and does not raise; when it yields a
\* table, get_reading_time returns that table with reading_time applied to
\* series_value and the series_name column set.
C17_ReadingTimeDegrades ==
    [][(pc = "done" /\ pc' = "returned") =>
            /\ result.kind = "none" => result'.kind = "none"
            /\ result.kind = "table" =>
                    /\ result'.kind = "table"
                    /\ result'.applied = "reading_time"
                    /\ result'.table.blocks = result.table.blocks
                    /\ \E i \in 1..Len(result'.table.cols) :
                            result'.table.cols[i] = <<"series_name">>]_vars

\* the integer units of n words: the quotients of the cascaded remainders
Rem1(n) == n % WordsPerYear
Rem2(n) == (Rem1(n) * 50) % WordsPerYear
Rem3(n) == (Rem2(n) * 5) % WordsPerYear
Rem4(n) == (Rem3(n) * 8) % WordsPerYear
UnitYears(n) == n \div WordsPerYear
UnitWeeks(n) == (Rem1(n) * 50) \div WordsPerYear
UnitDays(n) == (Rem2(n) * 5) \div WordsPerYear
UnitHours(n) == (Rem3(n) * 8) \div WordsPerYear
UnitMinutes(n) == Rem4(n) \div (WordsPerYear \div 60)

\* the units to list, in order: the nonzero ones, hours left out when
\* years is nonzero, minutes when years or weeks is
Unit(count, name) == [count |-> count, name |-> name]
Listed(n) ==
    SelectSeq(<<Unit(UnitYears(n), "year"),
                Unit(UnitWeeks(n), "week"),
                Unit(UnitDays(n), "day"),
                Unit(IF UnitYears(n) = 0 THEN UnitHours(n) ELSE 0, "hour"),
                Unit(IF UnitYears(n) = 0 /\ UnitWeeks(n) = 0
                     THEN UnitMinutes(n) ELSE 0, "minute")>>,
              LAMBDA u : u.count # 0)

\* the units written out, a comma and a space between them, the name in
\* the plural when the count exceeds one
RECURSIVE Phrase(_)
Phrase(units) ==
    IF units = <<>> THEN <<>>
    ELSE <<Number(units[1].count), Word(" "),
           Word(IF units[1].count > 1 THEN units[1].name \o "s" ELSE units[1].name)>>
         \o (IF Len(units) = 1 THEN <<>> ELSE <<Word(","), Word(" ")>>)
         \o Phrase(Tail(units))

\* C18: for a non-negative integer word count and the default constants,
\* reading_time returns 'Less than a minute' exactly when the five integer
\* units are all zero, which is when words < 300, and otherwise the nonzero
\* units in the order year, week, day, hour, minute, separated by ', ',
\* hours left out when years is nonzero and minutes when years or weeks is,
\* each unit in the plural exactly when its count exceeds one.
C18_ReadingTimeFormat ==
    floats.line = "return" =>
        /\ text = LessThanAMinute <=> words < 300
        /\ words < 300 <=> Listed(words) = <<>>
        /\ words >= 300 => text = Phrase(Listed(words))

====
